---- MODULE Spec2Model ----
(***************************************************************************)
(* Asynchronous job orchestration of regcheck: the job-record store and    *)
(* mergeJobRecord (netlify/functions/_shared/job-store.ts), the Launcher   *)
(* regcheck-start, the Background Executor regcheck-background, the Status *)
(* Endpoint regcheck-status and the client poller runValidationJob         *)
(* (src/lib/regcheck-jobs.ts).                                             *)
(*                                                                         *)
(* An optional value (a field that may be undefined) is a set: {} when     *)
(* the field is absent or undefined, {v} when it holds v.  JSON storage    *)
(* drops undefined fields, so absent and undefined are one value.          *)
(***************************************************************************)
EXTENDS Integers, Sequences, FiniteSets, TLC

VARIABLES
  store,      \* the job store: jobId -> optional JobRecord
  now,        \* the servers' clock (new Date() / Date.now() of the functions)
  L,          \* the regcheck-start invocations: position and locals of each
  E,          \* the regcheck-background invocations, one per accepted trigger
  S,          \* the regcheck-status invocation in progress and its last answer
  P,          \* the runValidationJob call of the browser: position and locals
  clientNow,  \* the browser's clock, in thousandths of a millisecond
  J,          \* the job-store module of one process (jobStore, memoryStore, the flag
              \* of the fallback warning), the file and the blobs behind it, the
              \* state of their environment, and the outcome of its last call
  M           \* the calls in flight of two concurrent callers of the job store:
              \* position and locals of their mergeJobRecord and of their setJSON

vars == <<store, now, L, E, S, P, clientNow, J, M>>

\* ---------------------------------------------------------------- bounds

MaxTime == 1

\* The regcheck-start invocations a run holds: a submission and a second call.
Launches == {1, 2}

JobIds == {"j1", "j2"}

\* ------------------------------------------------------- optional values

None == {}

Some(v) == {v}

IsSome(o) == o # {}

The(o) == CHOOSE v \in o : TRUE

\* ------------------------------------------------------------ job records

TerminalStatuses == {"completed", "failed"}

IsTerminal(status) == status \in TerminalStatuses

EmptyMetrics == [durationMs |-> None]

\* { ...a, ...b } for objects of a fixed schema: the keys b carries win.
Spread(a, b) == [k \in DOMAIN a |-> IF k \in DOMAIN b THEN b[k] ELSE a[k]]

\* A skeleton that is already running and dated from the epoch.
Skeleton_Running(jobId, t) ==
  [jobId       |-> jobId,
   status      |-> "running",
   startedAt   |-> 0,
   updatedAt   |-> 0,
   completedAt |-> None,
   request     |-> [endpoint |-> "unknown", method |-> "POST", metadata |-> None],
   result      |-> None,
   error       |-> None,
   metrics     |-> None]

\* The pending skeleton mergeJobRecord uses when no record is stored.
Skeleton(jobId, t) ==
  [jobId       |-> jobId,
   status      |-> "pending",
   startedAt   |-> t,
   updatedAt   |-> t,
   completedAt |-> None,
   request     |-> [endpoint |-> "unknown", method |-> "POST", metadata |-> None],
   result      |-> None,
   error       |-> None,
   metrics     |-> None]

\* A merge that starts from the skeleton whatever is stored.
Existing_AlwaysSkeleton(stored, jobId, t) == Skeleton(jobId, t)

\* (await readJobRecord(jobId)) ?? skeleton
Existing(stored, jobId, t) == IF IsSome(stored) THEN The(stored) ELSE Skeleton(jobId, t)

\* A merge that stamps completedAt on every terminal merge.
CompletedAtOf_Overwrite(status, completedAt, t) ==
  IF IsTerminal(status) THEN Some(t) ELSE completedAt

\* merged.completedAt = merged.completedAt ?? merged.updatedAt, for a terminal status only.
CompletedAtOf(status, completedAt, t) ==
  IF IsTerminal(status) /\ ~IsSome(completedAt) THEN Some(t) ELSE completedAt

\* A merge that leaves updatedAt as it was read.
UpdatedAtOf_Keep(existing, t) == existing.updatedAt

\* merged.updatedAt = new Date()
UpdatedAtOf(existing, t) == t

\* A merge that spreads the top level only: request and metrics are taken whole from
\* the patch when it carries them.
MergeRecord_Shallow(existing, patch, t) ==
  LET top == Spread(existing, patch)
      req == IF "request" \in DOMAIN patch
               THEN Spread([endpoint |-> "unknown", method |-> "POST", metadata |-> None],
                           patch.request)
               ELSE existing.request
  IN [top EXCEPT !.request = req,
                 !.updatedAt = UpdatedAtOf(existing, t),
                 !.completedAt = CompletedAtOf(top.status, top.completedAt, t)]

\* The record mergeJobRecord computes from the record it read and the patch, at time t.
MergeRecord(existing, patch, t) ==
  LET top == Spread(existing, patch)
      req == Spread(existing.request,
                    IF "request" \in DOMAIN patch THEN patch.request ELSE [x \in {} |-> x])
      met == Spread(IF IsSome(existing.metrics) THEN The(existing.metrics) ELSE EmptyMetrics,
                    IF "metrics" \in DOMAIN patch /\ IsSome(patch.metrics)
                      THEN The(patch.metrics) ELSE [x \in {} |-> x])
  IN [top EXCEPT !.request = req,
                 !.metrics = Some(met),
                 !.updatedAt = UpdatedAtOf(existing, t),
                 !.completedAt = CompletedAtOf(top.status, top.completedAt, t)]

\* ------------------------------------------------- patches of the callers

\* An initial record that leaves result and error as they are stored.
PendingPatch_KeepOutcome(jobId, startedAt, endpoint, metadata) ==
  [jobId     |-> jobId,
   status    |-> "pending",
   startedAt |-> startedAt,
   request   |-> [endpoint |-> endpoint, method |-> "POST", metadata |-> metadata]]

\* An initial record that keeps the caller's authorization header with the metadata.
PendingPatch_WithCredential(jobId, startedAt, endpoint, metadata) ==
  [jobId     |-> jobId,
   status    |-> "pending",
   startedAt |-> startedAt,
   request   |-> [endpoint |-> endpoint, method |-> "POST",
                  metadata |-> L[CHOOSE i \in Launches : L[i].jobId = jobId].credential],
   result    |-> None,
   error     |-> None,
   metrics   |-> None]

\* regcheck-start, the initial record.
PendingPatch(jobId, startedAt, endpoint, metadata) ==
  [jobId     |-> jobId,
   status    |-> "pending",
   startedAt |-> startedAt,
   request   |-> [endpoint |-> endpoint, method |-> "POST", metadata |-> metadata],
   result    |-> None,
   error     |-> None,
   metrics   |-> None]

EnqueueMessage(status) ==
  IF status = 404 THEN "Failed to enqueue background job (status 404)"
                  ELSE "Failed to enqueue background job (status 500)"

\* regcheck-start, after a trigger response that is neither ok nor 202.
EnqueueFailedPatch(jobId, status) ==
  [jobId  |-> jobId,
   status |-> "failed",
   error  |-> Some([message |-> EnqueueMessage(status), details |-> None])]

\* regcheck-background, first write.
RunningPatch(jobId) == [jobId |-> jobId, status |-> "running"]

\* ------------------------------------------------ the upstream call's answers

GoodEndpoint == "/v5/ingredient-analysis/transaction"

BadUrlEndpoint == "//"

EmptyEndpoint == ""

Endpoints == {GoodEndpoint, BadUrlEndpoint, EmptyEndpoint}

Metadatas == {None, Some("scenario")}

\* normalizeEndpoint: the target URL, or nothing when new URL(endpoint, base) throws.
NormalizeEndpoint(endpoint) ==
  IF endpoint = BadUrlEndpoint THEN None ELSE Some("https://api.decernis.com" \o endpoint)

MessageBody == "{\"message\":\"invalid ingredient id\"}"

RowsBody == "{\"rows\":[]}"

HtmlBody == "<html>"

\* JSON.parse(responseText) inside its try: nothing for an empty or malformed text.
ParseBody(text) ==
  IF text = MessageBody THEN Some([message |-> "invalid ingredient id"])
  ELSE IF text = RowsBody THEN Some([rows |-> 0])
  ELSE None

\* Buffer.byteLength(responseText, "utf-8"), undefined for an empty text.
WeightBytes(text) ==
  IF text = MessageBody THEN Some(35)
  ELSE IF text = RowsBody THEN Some(11)
  ELSE IF text = HtmlBody THEN Some(6)
  ELSE None

\* response.ok
IsOk(status) == status >= 200 /\ status <= 299

\* response.statusText || undefined
StatusText(status) ==
  IF status = 200 THEN Some("OK")
  ELSE IF status = 204 THEN Some("No Content")
  ELSE IF status = 404 THEN Some("Not Found")
  ELSE None

\* text || undefined
NonEmpty(text) == IF text = "" THEN None ELSE Some(text)

\* What fetch(targetUrl) and response.text() can give: a response, or an exception.
UpstreamAnswers ==
  [kind : {"response"}, status : {200}, text : {RowsBody, HtmlBody}, message : {""}]
    \cup [kind : {"response"}, status : {204, 404}, text : {""}, message : {""}]
    \cup [kind : {"response"}, status : {500}, text : {MessageBody, HtmlBody, ""},
           message : {""}]
    \cup {[kind |-> "throw", status |-> 0, text |-> "", message |-> "fetch failed"]}

\* `Upstream request failed with status ${response.status}`
StatusMessage(status) ==
  IF status = 404 THEN "Upstream request failed with status 404"
                  ELSE "Upstream request failed with status 500"

\* A message that never looks at the body.
UpstreamMessage_Generic(status, parsed) == StatusMessage(status)

\* The message field of the parsed body when it is an object that has one, else the
\* message that names the status.
UpstreamMessage(status, parsed) ==
  IF IsSome(parsed) /\ "message" \in DOMAIN The(parsed)
    THEN The(parsed).message
    ELSE StatusMessage(status)

\* parsedBody ?? responseText ?? null
DetailsOf(parsed, text) ==
  IF IsSome(parsed) THEN Some([json |-> The(parsed)]) ELSE Some([text |-> text])

\* regcheck-background, the patch for a response that is not ok.
UpstreamFailedPatch(jobId, status, text, durationMs) ==
  [jobId   |-> jobId,
   status  |-> "failed",
   error   |-> Some([message |-> UpstreamMessage(status, ParseBody(text)),
                     details |-> DetailsOf(ParseBody(text), text)]),
   result  |-> Some([status |-> status, statusText |-> StatusText(status), body |-> None,
                     rawBody |-> NonEmpty(text), weightBytes |-> None]),
   metrics |-> Some([durationMs |-> Some(durationMs)])]

\* A completed patch that leaves the raw body out.
CompletedPatch_NoRawBody(jobId, status, text, durationMs) ==
  [jobId   |-> jobId,
   status  |-> "completed",
   result  |-> Some([status |-> status, statusText |-> StatusText(status),
                     body |-> ParseBody(text), rawBody |-> None,
                     weightBytes |-> WeightBytes(text)]),
   metrics |-> Some([durationMs |-> Some(durationMs)])]

\* regcheck-background, the patch for an ok response.
CompletedPatch(jobId, status, text, durationMs) ==
  [jobId   |-> jobId,
   status  |-> "completed",
   result  |-> Some([status |-> status, statusText |-> StatusText(status),
                     body |-> ParseBody(text), rawBody |-> NonEmpty(text),
                     weightBytes |-> WeightBytes(text)]),
   metrics |-> Some([durationMs |-> Some(durationMs)])]

\* regcheck-background, the patch of the catch block.
ExceptionPatch(jobId, message, durationMs) ==
  [jobId   |-> jobId,
   status  |-> "failed",
   error   |-> Some([message |-> message, details |-> None]),
   metrics |-> Some([durationMs |-> Some(durationMs)])]

\* The patch regcheck-background merges once fetch and text() have settled.
OutcomePatch(jobId, answer, durationMs) ==
  IF answer.kind = "throw" THEN ExceptionPatch(jobId, answer.message, durationMs)
  ELSE IF ~IsOk(answer.status)
    THEN UpstreamFailedPatch(jobId, answer.status, answer.text, durationMs)
    ELSE CompletedPatch(jobId, answer.status, answer.text, durationMs)

\* -------------------------------------------------------------- initial state

LauncherIdle ==
  [pc |-> "idle", jobId |-> "", endpoint |-> "", metadata |-> None, startedAt |-> 0,
   merged |-> None, trigger |-> 0, statusCode |-> 0, message |-> "",
   answeredJobId |-> None, credential |-> None]

ExecutorIdle ==
  [pc |-> "idle", jobId |-> "", endpoint |-> "", merged |-> None, startedAt |-> 0,
   patch |-> None, inCatch |-> FALSE, statusCode |-> 0, answer |-> None,
   credential |-> None]

StatusIdle ==
  [pc |-> "idle", jobId |-> "", cleanup |-> FALSE, record |-> None, statusCode |-> 0]

\* The keys the store is called with: jobIds come from the request body and the query
\* string, so any string is a key, the names of Object.prototype's members included.
StoreKeys == {"j1", "constructor", "__proto__"}

\* The last call of the store: its function, its arguments, and what it returned.
NoOutcome ==
  [op |-> "", key |-> "", arg |-> None, threw |-> FALSE, value |-> None, keys |-> <<>>,
   records |-> <<>>]

\* A fresh process: nothing resolved, an empty Map, no file, no blob; the Blobs
\* environment is configured and the file system usable.  live is history: the keys
\* a writeJobRecord has returned for with no deleteJobRecord returning since.
JobStoreIdle ==
  [jobStore |-> "none", hasLoggedFallbackWarning |-> FALSE, memoryStore |-> <<>>,
   file |-> None, blobs |-> [k \in StoreKeys |-> None],
   blobsEnv |-> TRUE, blobList |-> TRUE, fs |-> "ok", ret |-> NoOutcome, live |-> {}]

\* The two callers that use the job store at the same time.
Callers == {1, 2}

\* The locals of mergeJobRecord (existing, merged) and of the file store's setJSON (data).
MergeIdle == [pc |-> "idle", jobId |-> "", patch |-> None, existing |-> None, merged |-> None]

SetIdle == [pc |-> "idle", key |-> "", value |-> None, data |-> <<>>]

CallsIdle == [merge |-> [c \in Callers |-> MergeIdle], set |-> [c \in Callers |-> SetIdle]]

PollerIdle ==
  [pc |-> "idle", jobId |-> "", pollIntervalMs |-> 0, timeoutMs |-> 0, sentAt |-> 0,
   startedAt |-> 0, attemptInterval |-> 0, delays |-> <<>>, polls |-> 0, starts |-> 0,
   aborted |-> FALSE, lastCode |-> 0, returned |-> None, error |-> ""]

Init ==
  /\ store = [j \in JobIds |-> None]
  /\ now = 0
  /\ L = [i \in Launches |-> LauncherIdle]
  /\ E = [i \in Launches |-> ExecutorIdle]
  /\ S = StatusIdle
  /\ P = PollerIdle
  /\ clientNow = 0
  /\ J = JobStoreIdle
  /\ M = CallsIdle

\* The servers' clock advances.
Tick ==
  /\ now < MaxTime
  /\ now' = now + 1
  /\ UNCHANGED <<M, J, store, L, E, S, P, clientNow>>

\* ------------------------------------------------ regcheck-start (the Launcher)

RequestKinds == {"options", "notPost", "badJson", "noEndpoint", "ok"}

\* A handler that does not examine the body: every POST request goes on to the record.
LauncherBegin_NoBodyCheck(i, kind, jobId, endpoint, metadata, credential) ==
  /\ L[i].pc = "idle"
  /\ L' = [L EXCEPT ![i] =
       IF kind = "options" THEN [@ EXCEPT !.pc = "done", !.statusCode = 204]
       ELSE IF kind = "notPost"
         THEN [@ EXCEPT !.pc = "done", !.statusCode = 405, !.message = "Method not allowed"]
       ELSE [@ EXCEPT !.pc = "read", !.jobId = jobId, !.endpoint = endpoint,
                      !.metadata = metadata, !.startedAt = now,
                      !.credential = credential]]

\* The handler up to its first await: the method and body checks, the jobId, the patch.
LauncherBegin(i, kind, jobId, endpoint, metadata, credential) ==
  /\ L[i].pc = "idle"
  /\ L' = [L EXCEPT ![i] =
       IF kind = "options" THEN [@ EXCEPT !.pc = "done", !.statusCode = 204]
       ELSE IF kind = "notPost"
         THEN [@ EXCEPT !.pc = "done", !.statusCode = 405, !.message = "Method not allowed"]
       ELSE IF kind = "badJson"
         THEN [@ EXCEPT !.pc = "done", !.statusCode = 400, !.message = "Invalid JSON payload"]
       ELSE IF kind = "noEndpoint"
         THEN [@ EXCEPT !.pc = "done", !.statusCode = 400,
                        !.message = "Request endpoint is required"]
       ELSE [@ EXCEPT !.pc = "read", !.jobId = jobId, !.endpoint = endpoint,
                      !.metadata = metadata, !.startedAt = now,
                      !.credential = credential]]

\* A client calls regcheck-start.
LauncherInvoke(kind, jobId, endpoint, metadata) ==
  /\ LauncherBegin(1, kind, jobId, endpoint, metadata, None)
  /\ UNCHANGED <<M, J, store, now, E, S, P, clientNow>>

\* A client sends the request of an earlier call again, with the same jobId, after
\* the handlers of that call have finished.
LauncherResubmit ==
  /\ L[1].pc \in {"done", "threw"}
  /\ E[1].pc \in {"idle", "done", "threw"}
  /\ L[1].jobId # ""
  /\ LauncherBegin(2, "ok", L[1].jobId, L[1].endpoint, L[1].metadata, None)
  /\ UNCHANGED <<M, J, store, now, E, S, P, clientNow>>

\* mergeJobRecord of the pending record: readJobRecord settles, the merge is computed.
LauncherRead(i, ok) ==
  /\ L[i].pc = "read"
  /\ L' = [L EXCEPT ![i] =
       IF ok
         THEN [@ EXCEPT !.pc = "write",
                        !.merged = Some(MergeRecord(
                           Existing(store[L[i].jobId], L[i].jobId, now),
                           PendingPatch(L[i].jobId, L[i].startedAt, L[i].endpoint,
                                        L[i].metadata), now))]
         ELSE [@ EXCEPT !.pc = "threw", !.statusCode = 500]]
  /\ UNCHANGED <<M, J, store, now, E, S, P, clientNow>>

\* mergeJobRecord of the pending record: writeJobRecord settles; the trigger is sent.
LauncherWrite(i, ok) ==
  /\ L[i].pc = "write"
  /\ store' = IF ok THEN [store EXCEPT ![L[i].jobId] = L[i].merged] ELSE store
  /\ L' = [L EXCEPT ![i] =
       IF ok THEN [@ EXCEPT !.pc = "trigger", !.merged = None]
             ELSE [@ EXCEPT !.pc = "threw", !.merged = None, !.statusCode = 500]]
  /\ UNCHANGED <<M, J, now, E, S, P, clientNow>>

\* What await fetch(regcheck-background) can give the Launcher: 202 when the platform
\* has queued the background function, a status that is not ok when it has not, or
\* an exception when the request itself fails.
TriggerAnswers == {"accepted", "rejected", "throws"}

RejectedStatuses == {404, 500}

\* A check for which every trigger response is an acceptance.
TriggerAccepted_Any(status) == TRUE

\* A check for which no trigger is accepted.
TriggerAccepted_None(status) == FALSE

\* A check that takes 200 alone for an accepted trigger.
TriggerAccepted_Only200(status) == status = 200

\* The check on the trigger's response: ok or 202.
TriggerAccepted(status) == IsOk(status) \/ status = 202

\* A platform that runs the Executor whatever it has answered to the trigger call.
LauncherTrigger_RunsAnyway(i, answer, status) ==
  /\ L[i].pc = "trigger"
  /\ (answer = "accepted") = (status = 202)
  /\ (answer = "rejected") = (status \in RejectedStatuses)
  /\ (answer = "throws") = (status = 0)
  /\ L' = [L EXCEPT ![i] =
       IF answer = "throws" THEN [@ EXCEPT !.pc = "threw", !.statusCode = 500]
       ELSE IF ~TriggerAccepted(status) THEN [@ EXCEPT !.pc = "failRead", !.trigger = status]
       ELSE [@ EXCEPT !.pc = "done", !.trigger = status, !.statusCode = 202,
                      !.answeredJobId = Some(L[i].jobId)]]
  /\ E' = [E EXCEPT ![i] = [@ EXCEPT !.pc = "start", !.jobId = L[i].jobId,
                                     !.endpoint = L[i].endpoint,
                                     !.credential = L[i].credential]]
  /\ UNCHANGED <<M, J, store, now, S, P, clientNow>>

\* The trigger call settles.  The platform runs the Executor when it has queued it;
\* the Launcher goes by the response's status alone.
LauncherTrigger(i, answer, status) ==
  /\ L[i].pc = "trigger"
  /\ (answer = "accepted") = (status = 202)
  /\ (answer = "rejected") = (status \in RejectedStatuses)
  /\ (answer = "throws") = (status = 0)
  /\ L' = [L EXCEPT ![i] =
       IF answer = "throws" THEN [@ EXCEPT !.pc = "threw", !.statusCode = 500]
       ELSE IF ~TriggerAccepted(status) THEN [@ EXCEPT !.pc = "failRead", !.trigger = status]
       ELSE [@ EXCEPT !.pc = "done", !.trigger = status, !.statusCode = 202,
                      !.answeredJobId = Some(L[i].jobId)]]
  /\ E' = IF answer = "accepted"
            THEN [E EXCEPT ![i] = [@ EXCEPT !.pc = "start", !.jobId = L[i].jobId,
                                            !.endpoint = L[i].endpoint,
                                            !.credential = L[i].credential]]
            ELSE E
  /\ UNCHANGED <<M, J, store, now, S, P, clientNow>>

\* mergeJobRecord of the failed mark: readJobRecord settles.
LauncherFailRead(i, ok) ==
  /\ L[i].pc = "failRead"
  /\ L' = [L EXCEPT ![i] =
       IF ok
         THEN [@ EXCEPT !.pc = "failWrite",
                        !.merged = Some(MergeRecord(
                           Existing(store[L[i].jobId], L[i].jobId, now),
                           EnqueueFailedPatch(L[i].jobId, L[i].trigger), now))]
         ELSE [@ EXCEPT !.pc = "threw", !.statusCode = 500]]
  /\ UNCHANGED <<M, J, store, now, E, S, P, clientNow>>

\* mergeJobRecord of the failed mark: writeJobRecord settles; the Launcher answers 502.
LauncherFailWrite(i, ok) ==
  /\ L[i].pc = "failWrite"
  /\ store' = IF ok THEN [store EXCEPT ![L[i].jobId] = L[i].merged] ELSE store
  /\ L' = [L EXCEPT ![i] =
       IF ok THEN [@ EXCEPT !.pc = "done", !.merged = None, !.statusCode = 502,
                            !.message = "Failed to enqueue background job",
                            !.answeredJobId = Some(L[i].jobId)]
             ELSE [@ EXCEPT !.pc = "threw", !.merged = None, !.statusCode = 500]]
  /\ UNCHANGED <<M, J, now, E, S, P, clientNow>>

\* ------------------------------------ regcheck-background (the Background Executor)

\* The queued invocation runs up to the end of its first readJobRecord: the body is
\* parsed, a missing jobId or endpoint answers 400, else the running merge is computed.
ExecutorStart(i, ok) ==
  /\ E[i].pc = "start"
  /\ IF E[i].endpoint = EmptyEndpoint
       THEN /\ ok
            /\ E' = [E EXCEPT ![i] = [@ EXCEPT !.pc = "done", !.statusCode = 400]]
       ELSE /\ E' = [E EXCEPT ![i] =
                 IF ok
                   THEN [@ EXCEPT !.pc = "write",
                                  !.merged = Some(MergeRecord(
                                     Existing(store[E[i].jobId], E[i].jobId, now),
                                     RunningPatch(E[i].jobId), now))]
                   ELSE [@ EXCEPT !.pc = "threw"]]
  /\ UNCHANGED <<M, J, store, now, L, S, P, clientNow>>

\* A handler that goes on to the upstream call when the running write has thrown.
ExecutorWrite_IgnoresFailure(i, ok) ==
  /\ E[i].pc = "write"
  /\ store' = IF ok THEN [store EXCEPT ![E[i].jobId] = E[i].merged] ELSE store
  /\ E' = [E EXCEPT ![i] =
       IF IsSome(NormalizeEndpoint(E[i].endpoint))
         THEN [@ EXCEPT !.pc = "upstream", !.merged = None, !.startedAt = now]
         ELSE [@ EXCEPT !.pc = "threw", !.merged = None]]
  /\ UNCHANGED <<M, J, now, L, S, P, clientNow>>

\* The running record is written; the URL is normalised and the upstream call sent.
ExecutorWrite(i, ok) ==
  /\ E[i].pc = "write"
  /\ store' = IF ok THEN [store EXCEPT ![E[i].jobId] = E[i].merged] ELSE store
  /\ E' = [E EXCEPT ![i] =
       IF ok /\ IsSome(NormalizeEndpoint(E[i].endpoint))
         THEN [@ EXCEPT !.pc = "upstream", !.merged = None, !.startedAt = now]
         ELSE [@ EXCEPT !.pc = "threw", !.merged = None]]
  /\ UNCHANGED <<M, J, now, L, S, P, clientNow>>

\* fetch and response.text() settle; the outcome's patch is built.
ExecutorUpstream(i, answer) ==
  /\ E[i].pc = "upstream"
  /\ E' = [E EXCEPT ![i] =
       [@ EXCEPT !.pc = "termRead",
                 !.inCatch = (answer.kind = "throw"),
                 !.answer = Some(answer),
                 !.patch = Some(OutcomePatch(E[i].jobId, answer, now - E[i].startedAt))]]
  /\ UNCHANGED <<M, J, store, now, L, S, P, clientNow>>

\* The patch the catch block merges when a merge inside the try has thrown.
StoreErrorMessage == "store operation failed"

\* The outcome's mergeJobRecord: readJobRecord settles.  A throw inside the try
\* enters the catch block, whose own merge starts; a throw inside the catch escapes.
ExecutorTermRead(i, ok) ==
  /\ E[i].pc = "termRead"
  /\ E' = [E EXCEPT ![i] =
       IF ok
         THEN [@ EXCEPT !.pc = "termWrite",
                        !.merged = Some(MergeRecord(
                           Existing(store[E[i].jobId], E[i].jobId, now),
                           The(E[i].patch), now))]
         ELSE IF E[i].inCatch
           THEN [@ EXCEPT !.pc = "threw"]
           ELSE [@ EXCEPT !.inCatch = TRUE,
                          !.patch = Some(ExceptionPatch(E[i].jobId, StoreErrorMessage,
                                                        now - E[i].startedAt))]]
  /\ UNCHANGED <<M, J, store, now, L, S, P, clientNow>>

\* A handler that answers 502 once it has recorded a failed outcome.
ExecutorTermWrite_AnswersOutcome(i, ok) ==
  /\ E[i].pc = "termWrite"
  /\ store' = IF ok THEN [store EXCEPT ![E[i].jobId] = E[i].merged] ELSE store
  /\ E' = [E EXCEPT ![i] =
       IF ok
         THEN [@ EXCEPT !.pc = "done", !.merged = None, !.patch = None, !.answer = None,
                        !.statusCode = IF The(E[i].merged).status = "failed"
                                         THEN 502 ELSE 200]
         ELSE IF E[i].inCatch
           THEN [@ EXCEPT !.pc = "threw", !.merged = None]
           ELSE [@ EXCEPT !.pc = "termRead", !.merged = None, !.inCatch = TRUE,
                          !.patch = Some(ExceptionPatch(E[i].jobId, StoreErrorMessage,
                                                        now - E[i].startedAt))]]
  /\ UNCHANGED <<M, J, now, L, S, P, clientNow>>

\* The outcome's mergeJobRecord: writeJobRecord settles; the handler answers 200.
ExecutorTermWrite(i, ok) ==
  /\ E[i].pc = "termWrite"
  /\ store' = IF ok THEN [store EXCEPT ![E[i].jobId] = E[i].merged] ELSE store
  /\ E' = [E EXCEPT ![i] =
       IF ok
         THEN [@ EXCEPT !.pc = "done", !.merged = None, !.patch = None, !.answer = None,
                        !.statusCode = 200]
         ELSE IF E[i].inCatch
           THEN [@ EXCEPT !.pc = "threw", !.merged = None]
           ELSE [@ EXCEPT !.pc = "termRead", !.merged = None, !.inCatch = TRUE,
                          !.patch = Some(ExceptionPatch(E[i].jobId, StoreErrorMessage,
                                                        now - E[i].startedAt))]]
  /\ UNCHANGED <<M, J, now, L, S, P, clientNow>>

\* ---------------------------------------- regcheck-status (the Status Endpoint)

\* A cleanup variant that deletes every record it has read.
StatusRead_DeleteAny(ok) ==
  /\ S.pc = "read"
  /\ S' = IF ~ok THEN [S EXCEPT !.pc = "threw", !.statusCode = 500]
          ELSE IF ~IsSome(store[S.jobId])
            THEN [S EXCEPT !.pc = "done", !.statusCode = 404]
          ELSE IF S.cleanup
            THEN [S EXCEPT !.pc = "delete", !.record = store[S.jobId]]
          ELSE [S EXCEPT !.pc = "done", !.statusCode = 200, !.record = store[S.jobId]]
  /\ UNCHANGED <<M, J, store, now, L, E, P, clientNow>>

\* A handler that answers 200 whatever readJobRecord returned.
StatusRead_NeverNotFound(ok) ==
  /\ S.pc = "read"
  /\ S' = IF ~ok THEN [S EXCEPT !.pc = "threw", !.statusCode = 500]
          ELSE [S EXCEPT !.pc = "done", !.statusCode = 200, !.record = store[S.jobId]]
  /\ UNCHANGED <<M, J, store, now, L, E, P, clientNow>>

\* The handler up to the end of readJobRecord, for the plain variant (cleanup FALSE)
\* and the variant that deletes a terminal record after reading it (cleanup TRUE).
StatusRead(ok) ==
  /\ S.pc = "read"
  /\ S' = IF ~ok THEN [S EXCEPT !.pc = "threw", !.statusCode = 500]
          ELSE IF ~IsSome(store[S.jobId])
            THEN [S EXCEPT !.pc = "done", !.statusCode = 404]
          ELSE IF S.cleanup /\ IsTerminal(The(store[S.jobId]).status)
            THEN [S EXCEPT !.pc = "delete", !.record = store[S.jobId]]
          ELSE [S EXCEPT !.pc = "done", !.statusCode = 200, !.record = store[S.jobId]]
  /\ UNCHANGED <<M, J, store, now, L, E, P, clientNow>>

\* deleteJobRecord settles; a throw is caught and logged; the answer is 200.
StatusDelete(ok) ==
  /\ S.pc = "delete"
  /\ store' = IF ok THEN [store EXCEPT ![S.jobId] = None] ELSE store
  /\ S' = [S EXCEPT !.pc = "done", !.statusCode = 200]
  /\ UNCHANGED <<M, J, now, L, E, P, clientNow>>

\* The handler from the request to its first await.
StatusBegin(jobId, cleanup) ==
  /\ S.pc \in {"idle", "done", "threw"}
  /\ S' = [StatusIdle EXCEPT !.pc = "read", !.jobId = jobId, !.cleanup = cleanup]

\* A client calls regcheck-status.
StatusInvoke(jobId, cleanup) ==
  /\ StatusBegin(jobId, cleanup)
  /\ UNCHANGED <<M, J, store, now, L, E, P, clientNow>>

\* ----------------------------------------- runValidationJob (the Client Poller)

DEFAULT_POLL_INTERVAL_MS == 1500

MAX_POLL_INTERVAL_MS == 5000

\* BACKOFF_FACTOR = 1.4, as the fraction BackoffNum / BackoffDen
BackoffNum == 14

BackoffDen == 10

MIN_POLL_INTERVAL_MS == 500

DEFAULT_TIMEOUT_MS == 14 * 60 * 1000

\* Times of the browser are counted in thousandths of a millisecond, so that the
\* products by 1.4 are exact.
Micro(ms) == ms * 1000

\* Date.now(): whole milliseconds.
DateNow(clock) == clock \div 1000

Max(a, b) == IF a >= b THEN a ELSE b

\* A backoff without the cap.
NextInterval_NoCap(attemptInterval) == (attemptInterval * BackoffNum) \div BackoffDen

\* Math.min(MAX_POLL_INTERVAL_MS, attemptInterval * BACKOFF_FACTOR)
NextInterval(attemptInterval) ==
  IF attemptInterval * BackoffNum >= Micro(MAX_POLL_INTERVAL_MS) * BackoffDen
    THEN Micro(MAX_POLL_INTERVAL_MS)
    ELSE (attemptInterval * BackoffNum) \div BackoffDen

\* A poller that takes every answer of the Launcher for an acceptance.
StartAccepted_Any(code) == code # 0

\* startResponse.ok || startResponse.status === 202
StartAccepted(code) == IsOk(code) \/ code = 202

\* A loop without the timeout check.
TimedOut_Never(p, clock) == FALSE

\* A timeout counted from the moment the request to regcheck-start was sent.
TimedOut_FromSend(p, clock) == DateNow(clock) - p.sentAt > p.timeoutMs

\* Date.now() - startedAt > timeoutMs
TimedOut(p, clock) == DateNow(clock) - p.startedAt > p.timeoutMs

TimeoutError == "Timed out while waiting for validation job to complete"

\* A runValidationJob that looks at the signal before it submits anything.
PollerBegin_ChecksSignal(p, endpointPath, pollIntervalMs, timeoutMs, jobId, clock) ==
  IF endpointPath = ""
    THEN [p EXCEPT !.pc = "threw", !.error = "endpointPath is required"]
  ELSE IF p.aborted
    THEN [p EXCEPT !.pc = "threw", !.error = "AbortError"]
  ELSE [p EXCEPT !.pc = "start", !.jobId = jobId, !.pollIntervalMs = pollIntervalMs,
                 !.timeoutMs = timeoutMs, !.sentAt = DateNow(clock), !.starts = @ + 1]

\* From the call to the first await: the endpointPath check, the jobId, the request.
PollerBegin(p, endpointPath, pollIntervalMs, timeoutMs, jobId, clock) ==
  IF endpointPath = ""
    THEN [p EXCEPT !.pc = "threw", !.error = "endpointPath is required"]
    ELSE [p EXCEPT !.pc = "start", !.jobId = jobId, !.pollIntervalMs = pollIntervalMs,
                   !.timeoutMs = timeoutMs, !.sentAt = DateNow(clock), !.starts = @ + 1]

\* A poller that polls another jobId than the one it was answered or generated.
PollerOnStartAnswer_AnotherJobId(p, code, answeredJobId, clock) ==
  IF code = 0
    THEN [p EXCEPT !.pc = "threw", !.error = "fetch failed"]
  ELSE IF ~StartAccepted(code)
    THEN [p EXCEPT !.pc = "threw", !.error = "Failed to start validation job"]
  ELSE [p EXCEPT !.pc = "loop",
                 !.jobId = CHOOSE j \in JobIds : j # p.jobId,
                 !.startedAt = DateNow(clock),
                 !.attemptInterval = Micro(Max(MIN_POLL_INTERVAL_MS, p.pollIntervalMs))]

\* The Launcher's answer: a submission error, or the jobId to poll and the loop's start.
PollerOnStartAnswer(p, code, answeredJobId, clock) ==
  IF code = 0
    THEN [p EXCEPT !.pc = "threw", !.error = "fetch failed"]
  ELSE IF ~StartAccepted(code)
    THEN [p EXCEPT !.pc = "threw", !.error = "Failed to start validation job"]
  ELSE [p EXCEPT !.pc = "loop",
                 !.jobId = IF IsSome(answeredJobId) THEN The(answeredJobId) ELSE @,
                 !.startedAt = DateNow(clock),
                 !.attemptInterval = Micro(Max(MIN_POLL_INTERVAL_MS, p.pollIntervalMs))]

\* A loop that never looks at the signal.
PollerLoopTop_IgnoreSignal(p, clock) ==
  IF TimedOut(p, clock)
    THEN [p EXCEPT !.pc = "threw", !.error = TimeoutError]
    ELSE [p EXCEPT !.pc = "status", !.polls = @ + 1]

\* The top of the loop: the signal, the timeout, then the Status request.
PollerLoopTop(p, clock) ==
  IF p.aborted
    THEN [p EXCEPT !.pc = "threw", !.error = "AbortError"]
  ELSE IF TimedOut(p, clock)
    THEN [p EXCEPT !.pc = "threw", !.error = TimeoutError]
  ELSE [p EXCEPT !.pc = "status", !.polls = @ + 1]

\* A poller that waits and polls again after a Status answer that is not ok.
PollerOnStatusAnswer_ErrorsRetry(p, code, record) ==
  IF code = 0
    THEN [p EXCEPT !.pc = "threw", !.lastCode = code, !.error = "fetch failed"]
  ELSE IF ~IsOk(code)
    THEN [p EXCEPT !.pc = "delay", !.lastCode = code]
  ELSE IF IsTerminal(The(record).status)
    THEN [p EXCEPT !.pc = "returned", !.lastCode = code, !.returned = record]
  ELSE [p EXCEPT !.pc = "delay", !.lastCode = code]

\* A poller that polls again after a failed record.
PollerOnStatusAnswer_RetryFailed(p, code, record) ==
  IF code = 0
    THEN [p EXCEPT !.pc = "threw", !.lastCode = code, !.error = "fetch failed"]
  ELSE IF code = 404
    THEN [p EXCEPT !.pc = "delay", !.lastCode = code]
  ELSE IF ~IsOk(code)
    THEN [p EXCEPT !.pc = "threw", !.lastCode = code, !.error = "Unexpected status response"]
  ELSE IF The(record).status = "completed"
    THEN [p EXCEPT !.pc = "returned", !.lastCode = code, !.returned = record]
  ELSE [p EXCEPT !.pc = "delay", !.lastCode = code]

\* A poller for which 404 is a polling error like any other status that is not ok.
PollerOnStatusAnswer_NotFoundFatal(p, code, record) ==
  IF code = 0
    THEN [p EXCEPT !.pc = "threw", !.lastCode = code, !.error = "fetch failed"]
  ELSE IF ~IsOk(code)
    THEN [p EXCEPT !.pc = "threw", !.lastCode = code, !.error = "Unexpected status response"]
  ELSE IF IsTerminal(The(record).status)
    THEN [p EXCEPT !.pc = "returned", !.lastCode = code, !.returned = record]
  ELSE [p EXCEPT !.pc = "delay", !.lastCode = code]

\* The Status answer: wait and poll again, a polling error, or the record returned.
PollerOnStatusAnswer(p, code, record) ==
  IF code = 0
    THEN [p EXCEPT !.pc = "threw", !.lastCode = code, !.error = "fetch failed"]
  ELSE IF code = 404
    THEN [p EXCEPT !.pc = "delay", !.lastCode = code]
  ELSE IF ~IsOk(code)
    THEN [p EXCEPT !.pc = "threw", !.lastCode = code, !.error = "Unexpected status response"]
  ELSE IF IsTerminal(The(record).status)
    THEN [p EXCEPT !.pc = "returned", !.lastCode = code, !.returned = record]
  ELSE [p EXCEPT !.pc = "delay", !.lastCode = code]

\* The delay is over: the interval backs off and the loop goes round.
PollerAfterDelay(p) ==
  [p EXCEPT !.pc = "loop",
            !.delays = Append(@, p.attemptInterval),
            !.attemptInterval = NextInterval(p.attemptInterval)]

\* What an HTTP round trip of the browser can take, in milliseconds.
LatencyMs == 300

\* The timeouts the browser passes: a short one and a longer one.
TimeoutShortMs == 4000

TimeoutMs == 21000

ClockCapMs == 2 * TimeoutMs

Latencies == {0, LatencyMs}

\* The browser calls runValidationJob, which sends its request to regcheck-start.
PollStart(endpointPath, pollIntervalMs, timeoutMs, jobId, metadata) ==
  /\ P.pc = "idle"
  /\ P' = PollerBegin(P, endpointPath, pollIntervalMs, timeoutMs, jobId, clientNow)
  /\ IF endpointPath = ""
       THEN L' = L
       ELSE LauncherBegin(1, "ok", jobId, endpointPath, metadata, None)
  /\ UNCHANGED <<M, J, store, now, E, S, clientNow>>

\* The Launcher's answer reaches the browser (a handler that threw answers 500).
PollStartAnswer(latency) ==
  /\ P.pc = "start"
  /\ L[1].pc \in {"done", "threw"}
  /\ clientNow' = clientNow + Micro(latency)
  /\ P' = PollerOnStartAnswer(P, L[1].statusCode, L[1].answeredJobId, clientNow')
  /\ UNCHANGED <<M, J, store, now, L, E, S>>

\* One pass through the top of the loop; the Status request leaves.
PollLoop(cleanup) ==
  /\ P.pc = "loop"
  /\ P' = PollerLoopTop(P, clientNow)
  /\ IF P'.pc = "status"
       THEN StatusBegin(P.jobId, cleanup)
       ELSE /\ ~cleanup
            /\ S' = S
  /\ UNCHANGED <<M, J, store, now, L, E, clientNow>>

\* The Status answer reaches the browser.
PollStatusAnswer(latency) ==
  /\ P.pc = "status"
  /\ S.pc \in {"done", "threw"}
  /\ clientNow' = clientNow + Micro(latency)
  /\ P' = PollerOnStatusAnswer(P, S.statusCode, S.record)
  /\ S' = StatusIdle
  /\ UNCHANGED <<M, J, store, now, L, E>>

\* The delay between two polls elapses (the browser's clock is followed up to ClockCapMs).
PollDelay ==
  /\ P.pc = "delay"
  /\ clientNow + P.attemptInterval <= Micro(ClockCapMs)
  /\ clientNow' = clientNow + P.attemptInterval
  /\ P' = PollerAfterDelay(P)
  /\ UNCHANGED <<M, J, store, now, L, E, S>>

\* The caller aborts its signal.
Abort ==
  /\ ~P.aborted
  /\ P.pc \notin {"returned", "threw"}
  /\ P' = [P EXCEPT !.aborted = TRUE]
  /\ UNCHANGED <<M, J, store, now, L, E, S, clientNow>>

\* --------------------------------------------------------------- the servers

\* A step of a handler that is running; oks says whether store operations may
\* throw, answers what the upstream API may answer.
ServerStep(oks, answers) ==
  \/ \E i \in Launches, ok \in oks :
       \/ LauncherRead(i, ok)
       \/ LauncherWrite(i, ok)
       \/ LauncherFailRead(i, ok)
       \/ LauncherFailWrite(i, ok)
       \/ ExecutorStart(i, ok)
       \/ ExecutorWrite(i, ok)
       \/ ExecutorTermRead(i, ok)
       \/ ExecutorTermWrite(i, ok)
  \/ \E i \in Launches, answer \in TriggerAnswers, status \in RejectedStatuses \cup {0, 202} :
       LauncherTrigger(i, answer, status)
  \/ \E i \in Launches, answer \in answers : ExecutorUpstream(i, answer)
  \/ \E ok \in oks : StatusRead(ok) \/ StatusDelete(ok)

\* ------------------------------------------- one submission by the browser

\* The upstream answers followed behind the browser: 200 and 500 with each body, and
\* the exception.
BrowserAnswers == {a \in UpstreamAnswers : a.status \in {0, 200, 500}}

\* The browser submits one job and polls it; the functions run behind it.
Next ==
  \/ Tick
  \/ ServerStep(BOOLEAN, BrowserAnswers)
  \/ \E endpointPath \in Endpoints, jobId \in JobIds, metadata \in Metadatas :
       PollStart(endpointPath, DEFAULT_POLL_INTERVAL_MS, TimeoutShortMs, jobId, metadata)
  \/ \E latency \in Latencies : PollStartAnswer(latency) \/ PollStatusAnswer(latency)
  \/ \E cleanup \in BOOLEAN : PollLoop(cleanup)
  \/ PollDelay
  \/ Abort

Spec == Init /\ [][Next]_vars

\* ------------------------------------------- the functions called directly

DirectAnswers ==
  {a \in UpstreamAnswers : a.status \in {0, 200, 500} /\ a.text \in {RowsBody, MessageBody, ""}}

\* Any client may call regcheck-start with any body, send a request again with the
\* same jobId, and call regcheck-status with any jobId.
NextDirect ==
  \/ Tick
  \/ ServerStep({TRUE}, DirectAnswers)
  \/ \E kind \in RequestKinds, jobId \in JobIds, endpoint \in Endpoints,
        metadata \in Metadatas :
       LauncherInvoke(kind, jobId, endpoint, metadata)
  \/ LauncherResubmit
  \/ \E jobId \in JobIds, cleanup \in BOOLEAN : StatusInvoke(jobId, cleanup)

SpecDirect == Init /\ [][NextDirect]_vars

\* --------------------------------- one call of regcheck-start and what follows it

\* One client calls regcheck-start once, with any body; the Executor meets every
\* upstream answer; regcheck-status is called with any jobId.
NextExec ==
  \/ Tick
  \/ ServerStep({TRUE}, UpstreamAnswers)
  \/ \E kind \in RequestKinds, jobId \in JobIds, endpoint \in Endpoints,
        metadata \in Metadatas :
       LauncherInvoke(kind, jobId, endpoint, metadata)
  \/ \E jobId \in JobIds, cleanup \in BOOLEAN : StatusInvoke(jobId, cleanup)

SpecExec == Init /\ [][NextExec]_vars

\* ---------------------------------- the poller against any answers of the functions

PollIntervals == {DEFAULT_POLL_INTERVAL_MS, 100, 6000}

StartCodes == {0, 200, 202, 204, 400, 500, 502}

StatusCodes == {0, 200, 404, 500}

JobStatuses == {"pending", "running", "completed", "failed"}

\* await fetch(START_ENDPOINT) settles with some answer.
StubLauncher(code, answeredJobId) ==
  /\ L[1].pc = "read"
  /\ L' = [L EXCEPT ![1] = [@ EXCEPT !.pc = "done", !.statusCode = code,
                                     !.answeredJobId = answeredJobId]]
  /\ UNCHANGED <<M, J, store, now, E, S, P, clientNow>>

\* await fetch(STATUS_ENDPOINT) settles with some answer.
StubStatus(code, status) ==
  /\ S.pc = "read"
  /\ S' = [S EXCEPT !.pc = "done", !.statusCode = code,
                    !.record = IF code = 200
                                 THEN Some([Skeleton(S.jobId, 0) EXCEPT !.status = status])
                                 ELSE None]
  /\ UNCHANGED <<M, J, store, now, L, E, P, clientNow>>

NextPoll ==
  \/ \E endpointPath \in Endpoints, pollIntervalMs \in PollIntervals, jobId \in JobIds :
       PollStart(endpointPath, pollIntervalMs, TimeoutMs, jobId, None)
  \/ \E code \in StartCodes, answeredJobId \in {None} \cup {Some(j) : j \in JobIds} :
       StubLauncher(code, answeredJobId)
  \/ \E code \in StatusCodes, status \in JobStatuses : StubStatus(code, status)
  \/ \E latency \in Latencies : PollStartAnswer(latency) \/ PollStatusAnswer(latency)
  \/ \E cleanup \in {FALSE} : PollLoop(cleanup)
  \/ PollDelay
  \/ Abort

SpecPoll == Init /\ [][NextPoll]_vars

\* Every HTTP call returns and every delay elapses: the poller is never left waiting.
SpecPollFair == SpecPoll /\ WF_vars(NextPoll)

\* ------------------------------------------- mergeJobRecord called in sequence

MergeJobIds == {"j1"}

\* The patches the callers issue, and two partial patches.
MergePatches(jobId, t) ==
  {PendingPatch(jobId, t, GoodEndpoint, m) : m \in Metadatas}
    \cup {RunningPatch(jobId), EnqueueFailedPatch(jobId, 500)}
    \cup {OutcomePatch(jobId, a, 0) : a \in UpstreamAnswers}
    \cup {[metrics |-> Some([durationMs |-> Some(5)])], [request |-> [endpoint |-> "/x"]]}

\* One whole call of mergeJobRecord, with no other call in between its read and write.
MergeCall(jobId, patch) ==
  /\ store' = [store EXCEPT ![jobId] =
                 Some(MergeRecord(Existing(store[jobId], jobId, now), patch, now))]
  /\ UNCHANGED <<M, J, now, L, E, S, P, clientNow>>

NextMerge ==
  \/ Tick
  \/ \E jobId \in MergeJobIds, t \in 0..MaxTime :
       \E patch \in MergePatches(jobId, t) : t <= now /\ MergeCall(jobId, patch)

SpecMerge == Init /\ [][NextMerge]_vars

\* ------------------------- two submissions that differ in the credential alone

\* The values of the Authorization / x-api-key header a caller may send.
Credentials == {"Bearer key-A", "Bearer key-B"}

OtherJobId(jobId) == CHOOSE j \in JobIds : j # jobId

\* A client submits a job with some credential, or with none.
TwinSubmitFirst(jobId, endpoint, metadata, credential) ==
  /\ LauncherBegin(1, "ok", jobId, endpoint, metadata, credential)
  /\ UNCHANGED <<M, J, store, now, E, S, P, clientNow>>

\* A second client submits the same request under another jobId and with another
\* credential.
TwinSubmitSecond(credential) ==
  /\ L[1].pc # "idle"
  /\ credential # L[1].credential
  /\ LauncherBegin(2, "ok", OtherJobId(L[1].jobId), L[1].endpoint, L[1].metadata,
                   credential)
  /\ UNCHANGED <<M, J, store, now, E, S, P, clientNow>>

\* The environment answers the second submission as it answered the first: the same
\* response to the trigger call, the same upstream answer.
TwinTrigger(answer, status) ==
  /\ L[1].pc \in {"failRead", "failWrite", "done"}
  /\ status = L[1].trigger
  /\ LauncherTrigger(2, answer, status)

TwinUpstream ==
  /\ IsSome(E[1].answer)
  /\ ExecutorUpstream(2, The(E[1].answer))

NextTwin ==
  \/ Tick
  \/ \E jobId \in JobIds, endpoint \in Endpoints, metadata \in Metadatas,
        credential \in {None} \cup {Some(c) : c \in Credentials} :
       TwinSubmitFirst(jobId, endpoint, metadata, credential)
  \/ \E credential \in {None} \cup {Some(c) : c \in Credentials} :
       TwinSubmitSecond(credential)
  \/ \E i \in Launches :
       \/ LauncherRead(i, TRUE)
       \/ LauncherWrite(i, TRUE)
       \/ LauncherFailRead(i, TRUE)
       \/ LauncherFailWrite(i, TRUE)
       \/ ExecutorStart(i, TRUE)
       \/ ExecutorWrite(i, TRUE)
       \/ ExecutorTermRead(i, TRUE)
       \/ ExecutorTermWrite(i, TRUE)
  \/ \E answer \in {"accepted", "rejected"}, status \in RejectedStatuses \cup {202} :
       LauncherTrigger(1, answer, status) \/ TwinTrigger(answer, status)
  \/ \E answer \in UpstreamAnswers : ExecutorUpstream(1, answer)
  \/ TwinUpstream

SpecTwin == Init /\ [][NextTwin]_vars

\* ------------------------------------------------- the backends of the job store

\* The records the store is given: two job records that differ in status and time.
StoreValues ==
  {[status |-> "pending", updatedAt |-> 1], [status |-> "completed", updatedAt |-> 2]}

\* What the members of Object.prototype read as.
ObjectFunction == [builtin |-> "Object"]

ObjectPrototype == [builtin |-> "Object.prototype"]

\* prototype[key] for an object made by JSON.parse or by {}: every such object inherits
\* from Object.prototype.
Inherited(key) ==
  IF key = "constructor" THEN Some(ObjectFunction)
  ELSE IF key = "__proto__" THEN Some(ObjectPrototype)
  ELSE None

\* A Map, and the own properties of an object, are sequences of <<key, value>> in
\* the order of insertion.
HasOwn(data, key) == \E i \in 1..Len(data) : data[i][1] = key

OwnValue(data, key) == data[CHOOSE i \in 1..Len(data) : data[i][1] = key][2]

OwnSet(data, key, value) ==
  IF HasOwn(data, key)
    THEN [i \in 1..Len(data) |-> IF data[i][1] = key THEN <<key, value>> ELSE data[i]]
    ELSE Append(data, <<key, value>>)

OwnDelete(data, key) == SelectSeq(data, LAMBDA pair : pair[1] # key)

\* Object.keys(data), Array.from(map.keys())
OwnKeys(data) == [i \in 1..Len(data) |-> data[i][1]]

\* data[key] of an object: the own property, else the inherited one, else undefined.
GetProp(data, key) == IF HasOwn(data, key) THEN Some(OwnValue(data, key)) ELSE Inherited(key)

\* data[key] = value: assigning __proto__ calls the setter of Object.prototype, which
\* replaces the prototype and creates no own property.
SetProp(data, key, value) == IF key = "__proto__" THEN data ELSE OwnSet(data, key, value)

\* key in data
InProp(data, key) == HasOwn(data, key) \/ IsSome(Inherited(key))

\* map.get(key) of a Map: own entries only.
MapGet(map, key) == IF HasOwn(map, key) THEN Some(OwnValue(map, key)) ELSE None

\* JSON.stringify(data) keeps the own properties; JSON.parse gives them back in an
\* object that inherits from Object.prototype.
Stringify(data) == data

Parse(text) == text

\* readAll(): ENOENT gives {}, any other error of fs.readFile is thrown again.
ReadAllThrows(j) == j.fs = "unreadable"

ReadAll(j) == IF IsSome(j.file) THEN Parse(The(j.file)) ELSE <<>>

\* writeAll(): fs.mkdir and fs.writeFile throw when the directory cannot be written.
WriteAllThrows(j) == j.fs # "ok"

\* createFileStore() builds closures and touches no file: it does not throw.
CreateFileStoreThrows == FALSE

\* A resolveStore that resolves at every call.
ResolveStore_NoCache(j) ==
  IF j.blobsEnv
    THEN [j EXCEPT !.jobStore = "blob"]
    ELSE [j EXCEPT !.hasLoggedFallbackWarning = TRUE,
                   !.jobStore = IF CreateFileStoreThrows THEN "memory" ELSE "file"]

\* resolveStore(): the cached backend, else the first of createBlobStore (getStore
\* throws without the Blobs environment), createFileStore, createMemoryStore.
ResolveStore(j) ==
  IF j.jobStore # "none" THEN j
  ELSE IF j.blobsEnv
    THEN [j EXCEPT !.jobStore = "blob"]
    ELSE [j EXCEPT !.hasLoggedFallbackWarning = TRUE,
                   !.jobStore = IF CreateFileStoreThrows THEN "memory" ELSE "file"]

Returned(op, key, value) == [NoOutcome EXCEPT !.op = op, !.key = key, !.value = value]

WriteReturned(key, value) == [NoOutcome EXCEPT !.op = "write", !.key = key, !.arg = Some(value)]

Threw(op, key) == [NoOutcome EXCEPT !.op = op, !.key = key, !.threw = TRUE]

\* store.getJSON(key) of the resolved backend.
GetJSONThrows(j) == j.jobStore = "file" /\ ReadAllThrows(j)

GetJSON(j, key) ==
  IF j.jobStore = "blob" THEN j.blobs[key]
  ELSE IF j.jobStore = "file" THEN GetProp(ReadAll(j), key)
  ELSE MapGet(j.memoryStore, key)

\* readJobRecord(jobId)
ReadJobRecord(j0, key) ==
  LET j == ResolveStore(j0)
  IN IF GetJSONThrows(j) THEN [j EXCEPT !.ret = Threw("read", key)]
     ELSE [j EXCEPT !.ret = Returned("read", key, GetJSON(j, key))]

\* writeJobRecord(jobId, record): store.setJSON(key, value) of the resolved backend.
WriteJobRecord(j0, key, value) ==
  LET j == ResolveStore(j0)
  IN IF j.jobStore = "blob"
       THEN [j EXCEPT !.blobs[key] = Some(value), !.ret = WriteReturned(key, value),
                    !.live = @ \cup {key}]
     ELSE IF j.jobStore = "file"
       THEN IF ReadAllThrows(j) \/ WriteAllThrows(j)
              THEN [j EXCEPT !.ret = Threw("write", key)]
              ELSE [j EXCEPT !.file = Some(Stringify(SetProp(ReadAll(j), key, value))),
                             !.ret = WriteReturned(key, value), !.live = @ \cup {key}]
     ELSE [j EXCEPT !.memoryStore = OwnSet(@, key, value),
                    !.ret = WriteReturned(key, value), !.live = @ \cup {key}]

\* deleteJobRecord(jobId): store.delete(key) of the resolved backend.
DeleteJobRecord(j0, key) ==
  LET j == ResolveStore(j0)
  IN IF j.jobStore = "blob"
       THEN [j EXCEPT !.blobs[key] = None, !.ret = Returned("delete", key, None),
                      !.live = @ \ {key}]
     ELSE IF j.jobStore = "file"
       THEN IF ReadAllThrows(j) THEN [j EXCEPT !.ret = Threw("delete", key)]
            ELSE IF ~InProp(ReadAll(j), key)
              THEN [j EXCEPT !.ret = Returned("delete", key, None), !.live = @ \ {key}]
            ELSE IF WriteAllThrows(j) THEN [j EXCEPT !.ret = Threw("delete", key)]
            ELSE [j EXCEPT !.file = Some(Stringify(OwnDelete(ReadAll(j), key))),
                           !.ret = Returned("delete", key, None), !.live = @ \ {key}]
     ELSE [j EXCEPT !.memoryStore = OwnDelete(@, key),
                    !.ret = Returned("delete", key, None), !.live = @ \ {key}]

\* The order in which the blob service lists its keys.
BlobKeyOrder == <<"__proto__", "constructor", "j1">>

\* store.listKeys() of the resolved backend; a blob store without a list method
\* gives no key.
ListKeys(j) ==
  IF j.jobStore = "blob"
    THEN IF j.blobList THEN SelectSeq(BlobKeyOrder, LAMBDA k : IsSome(j.blobs[k])) ELSE <<>>
  ELSE IF j.jobStore = "file" THEN OwnKeys(ReadAll(j))
  ELSE OwnKeys(j.memoryStore)

\* The loop of listJobRecords: each key once, its record when getJSON gives one.
RECURSIVE Collect(_, _, _)
Collect(j, keys, seen) ==
  IF keys = <<>> THEN <<>>
  ELSE IF Head(keys) \in seen THEN Collect(j, Tail(keys), seen)
  ELSE LET record == GetJSON(j, Head(keys))
           rest == Collect(j, Tail(keys), seen \cup {Head(keys)})
       IN IF IsSome(record) THEN <<The(record)>> \o rest ELSE rest

\* records.sort((a, b) => getTimestamp(b.updatedAt) - getTimestamp(a.updatedAt)):
\* the latest first, equal times in the order given.
RECURSIVE SortByUpdatedAt(_)
SortByUpdatedAt(records) ==
  IF records = <<>> THEN <<>>
  ELSE LET first == CHOOSE i \in 1..Len(records) :
                      /\ \A k \in 1..Len(records) : records[k].updatedAt <= records[i].updatedAt
                      /\ \A k \in 1..(i - 1) : records[k].updatedAt < records[i].updatedAt
       IN <<records[first]>>
            \o SortByUpdatedAt([k \in 1..(Len(records) - 1) |->
                                  IF k < first THEN records[k] ELSE records[k + 1]])

\* listJobRecords()
ListJobRecords(j0) ==
  LET j == ResolveStore(j0)
  IN IF GetJSONThrows(j) THEN [j EXCEPT !.ret = Threw("list", "")]
     ELSE [j EXCEPT !.ret = [NoOutcome EXCEPT
                               !.op = "list",
                               !.keys = ListKeys(j),
                               !.records = SortByUpdatedAt(Collect(j, ListKeys(j), {}))]]

\* A function of this process calls the store.
ReadJobRecordCall(key) ==
  /\ J' = ReadJobRecord(J, key)
  /\ UNCHANGED <<M, store, now, L, E, S, P, clientNow>>

WriteJobRecordCall(key, value) ==
  /\ J' = WriteJobRecord(J, key, value)
  /\ UNCHANGED <<M, store, now, L, E, S, P, clientNow>>

DeleteJobRecordCall(key) ==
  /\ J' = DeleteJobRecord(J, key)
  /\ UNCHANGED <<M, store, now, L, E, S, P, clientNow>>

ListJobRecordsCall ==
  /\ J' = ListJobRecords(J)
  /\ UNCHANGED <<M, store, now, L, E, S, P, clientNow>>

FsStates == {"ok", "unreadable", "readonly"}

\* The environment of the process changes: the Blobs environment is or is not
\* configured, the blob store has or has not a list method, the state directory can
\* or cannot be read and written.
EnvironmentChange(blobsEnv, blobList, fs) ==
  /\ <<blobsEnv, blobList, fs>> # <<J.blobsEnv, J.blobList, J.fs>>
  /\ J' = [J EXCEPT !.blobsEnv = blobsEnv, !.blobList = blobList, !.fs = fs]
  /\ UNCHANGED <<M, store, now, L, E, S, P, clientNow>>

NextStore ==
  \/ \E blobsEnv \in BOOLEAN, blobList \in BOOLEAN, fs \in FsStates :
       EnvironmentChange(blobsEnv, blobList, fs)
  \/ \E key \in StoreKeys : ReadJobRecordCall(key)
  \/ \E key \in StoreKeys, value \in StoreValues : WriteJobRecordCall(key, value)
  \/ \E key \in StoreKeys : DeleteJobRecordCall(key)
  \/ ListJobRecordsCall

SpecStore == Init /\ [][NextStore]_vars

\* ------------------------------------- two callers of mergeJobRecord at once

\* The job the two callers merge into.
RaceJobId == "j1"

\* The patches of the two callers: those of the handlers and two partial ones.
RacePatches ==
  {RunningPatch(RaceJobId), EnqueueFailedPatch(RaceJobId, 500),
   OutcomePatch(RaceJobId, CHOOSE a \in UpstreamAnswers : a.status = 200 /\ a.text = RowsBody, 0),
   [metrics |-> Some([durationMs |-> Some(5)])],
   [request |-> [endpoint |-> "/x"]]}

\* mergeJobRecord(jobId, patch) is called: readJobRecord is awaited.
MergeBegin(c, jobId, patch) ==
  /\ M.merge[c].pc = "idle"
  /\ M' = [M EXCEPT !.merge[c] = [MergeIdle EXCEPT !.pc = "read", !.jobId = jobId,
                                                   !.patch = Some(patch)]]
  /\ UNCHANGED <<J, store, now, L, E, S, P, clientNow>>

\* readJobRecord settles: existing and merged are computed, writeJobRecord is awaited.
MergeRead(c) ==
  /\ M.merge[c].pc = "read"
  /\ LET existing == Existing(store[M.merge[c].jobId], M.merge[c].jobId, now)
     IN M' = [M EXCEPT !.merge[c] =
                [@ EXCEPT !.pc = "write",
                          !.existing = Some(existing),
                          !.merged = Some(MergeRecord(existing, The(M.merge[c].patch), now))]]
  /\ UNCHANGED <<J, store, now, L, E, S, P, clientNow>>

\* A write that merges the patch into the record stored at the time of the write.
MergeWrite_Serialised(c) ==
  /\ M.merge[c].pc = "write"
  /\ store' = [store EXCEPT ![M.merge[c].jobId] =
                 Some(MergeRecord(Existing(store[M.merge[c].jobId], M.merge[c].jobId, now),
                                  The(M.merge[c].patch), now))]
  /\ M' = [M EXCEPT !.merge[c].pc = "done"]
  /\ UNCHANGED <<J, now, L, E, S, P, clientNow>>

\* writeJobRecord settles: merged is stored and returned.
MergeWrite(c) ==
  /\ M.merge[c].pc = "write"
  /\ store' = [store EXCEPT ![M.merge[c].jobId] = M.merge[c].merged]
  /\ M' = [M EXCEPT !.merge[c].pc = "done"]
  /\ UNCHANGED <<J, now, L, E, S, P, clientNow>>

\* Calls made one after the other come first; then each caller calls once.
NextRace ==
  \/ Tick
  \/ \E patch \in RacePatches :
       (\A c \in Callers : M.merge[c].pc = "idle") /\ MergeCall(RaceJobId, patch)
  \/ \E c \in Callers, patch \in RacePatches : MergeBegin(c, RaceJobId, patch)
  \/ \E c \in Callers : MergeRead(c) \/ MergeWrite(c)

SpecRace == Init /\ [][NextRace]_vars

\* ------------------------------------- two callers of the file store at once

\* writeJobRecord(key, value) is called on the file backend: resolveStore has
\* returned the file store and setJSON awaits readAll.
SetBegin(c, key, value) ==
  /\ M.set[c].pc \in {"idle", "done", "threw"}
  /\ J' = ResolveStore(J)
  /\ J'.jobStore = "file"
  /\ M' = [M EXCEPT !.set[c] = [SetIdle EXCEPT !.pc = "readAll", !.key = key,
                                               !.value = Some(value)]]
  /\ UNCHANGED <<store, now, L, E, S, P, clientNow>>

\* readAll settles: data[key] = value, writeAll is awaited.
SetReadAll(c) ==
  /\ M.set[c].pc = "readAll"
  /\ M' = [M EXCEPT !.set[c] =
            IF ReadAllThrows(J) THEN [@ EXCEPT !.pc = "threw"]
            ELSE [@ EXCEPT !.pc = "writeAll",
                           !.data = SetProp(ReadAll(J), M.set[c].key, The(M.set[c].value))]]
  /\ UNCHANGED <<J, store, now, L, E, S, P, clientNow>>

\* A setJSON that reads the file again at the time it writes it.
SetWriteAll_Reread(c) ==
  /\ M.set[c].pc = "writeAll"
  /\ IF WriteAllThrows(J)
       THEN /\ M' = [M EXCEPT !.set[c].pc = "threw"]
            /\ J' = [J EXCEPT !.ret = Threw("write", M.set[c].key)]
       ELSE /\ M' = [M EXCEPT !.set[c].pc = "done"]
            /\ J' = [J EXCEPT !.file = Some(Stringify(SetProp(ReadAll(J), M.set[c].key,
                                                              The(M.set[c].value)))),
                              !.ret = WriteReturned(M.set[c].key, The(M.set[c].value)),
                              !.live = @ \cup {M.set[c].key}]
  /\ UNCHANGED <<store, now, L, E, S, P, clientNow>>

\* writeAll settles: the file holds data, writeJobRecord returns.
SetWriteAll(c) ==
  /\ M.set[c].pc = "writeAll"
  /\ IF WriteAllThrows(J)
       THEN /\ M' = [M EXCEPT !.set[c].pc = "threw"]
            /\ J' = [J EXCEPT !.ret = Threw("write", M.set[c].key)]
       ELSE /\ M' = [M EXCEPT !.set[c].pc = "done"]
            /\ J' = [J EXCEPT !.file = Some(Stringify(M.set[c].data)),
                              !.ret = WriteReturned(M.set[c].key, The(M.set[c].value)),
                              !.live = @ \cup {M.set[c].key}]
  /\ UNCHANGED <<store, now, L, E, S, P, clientNow>>

NextFileRace ==
  \/ \E blobsEnv \in BOOLEAN, fs \in FsStates : EnvironmentChange(blobsEnv, J.blobList, fs)
  \/ \E c \in Callers, key \in JobIds, value \in StoreValues : SetBegin(c, key, value)
  \/ \E c \in Callers : SetReadAll(c) \/ SetWriteAll(c)

SpecFileRace == Init /\ [][NextFileRace]_vars

\* ------------------------------------------------------------------ claims

Stored(j) == IsSome(store[j])

Record(j) == The(store[j])

TerminalStored(j) == Stored(j) /\ IsTerminal(Record(j).status)

\* C1: once the stored record of a jobId is completed or failed, no step of the
\* Launcher, the Executor or the Status Endpoint changes any field of it; the only
\* change that can follow is its deletion.
C1_TerminalRecordImmutable ==
  [][\A j \in JobIds :
       TerminalStored(j) => (store'[j] = store[j] \/ store'[j] = None)]_vars

\* C1, for a jobId that one Launcher call only has used: once its stored record is
\* completed or failed, every step leaves the record as it is or deletes it.
C1_TerminalRecordImmutableWithoutReuse ==
  [][\A j \in JobIds :
       (TerminalStored(j) /\ L[2].pc = "idle")
         => (store'[j] = store[j] \/ store'[j] = None)]_vars

\* A terminal record written earlier has been read by the Status Endpoint after all
\* handlers of its only submission finished, and is still stored as it was.
C1_Witness ==
  /\ L[1].pc = "done" /\ E[1].pc = "done" /\ L[2].pc = "idle"
  /\ L[1].jobId \in JobIds
  /\ TerminalStored(L[1].jobId)
  /\ S.pc = "done" /\ S.jobId = L[1].jobId /\ S.record = store[L[1].jobId]
  /\ Record(L[1].jobId).updatedAt < now

\* The handlers of the browser's submission are at rest: none is between two steps.
AtRest == L[1].pc \in {"done", "threw"} /\ E[1].pc \in {"idle", "done", "threw"}

\* C2: for a job whose pending record the Launcher has written, every failure of the
\* Launcher or the Executor ends up in the record: when its handlers are at rest none
\* has let an exception escape and the record, if still stored, is completed or failed.
C2_FailuresReachTheRecord ==
  (AtRest /\ L[1].jobId \in JobIds /\ Stored(L[1].jobId)) =>
    /\ L[1].pc # "threw"
    /\ E[1].pc # "threw"
    /\ TerminalStored(L[1].jobId)

EnqueueMessages == {EnqueueMessage(st) : st \in RejectedStatuses}

\* The record of invocation i's job says failed, with the enqueue error.
MarkedFailed(i, st) ==
  /\ IsSome(st[L[i].jobId])
  /\ The(st[L[i].jobId]).status = "failed"
  /\ IsSome(The(st[L[i].jobId]).error)
  /\ The(The(st[L[i].jobId]).error).message \in EnqueueMessages

\* C3: whenever the trigger call is not accepted, the stored record is failed with a
\* descriptive error.message at the moment the Launcher answers.
C3_RejectedTriggerMarksFailed ==
  [][\A i \in Launches :
       (/\ L[i].pc \in {"trigger", "failRead", "failWrite"}
        /\ L'[i].pc \in {"done", "threw"}
        /\ L'[i].statusCode # 202)
       => MarkedFailed(i, store')]_vars

\* C4: over the calls of mergeJobRecord on one jobId, completedAt stays absent until
\* the first call whose merged status is completed or failed, that call sets it to
\* its own updatedAt, and every later call keeps the value.
C4_CompletedAtSetOnce ==
  [][\A j \in MergeJobIds :
       IsSome(store'[j]) =>
         LET new == The(store'[j])
             had == IsSome(store[j]) /\ IsSome(Record(j).completedAt)
         IN /\ ~had => new.completedAt =
                          IF IsTerminal(new.status) THEN Some(new.updatedAt) ELSE None
            /\ had => new.completedAt = Record(j).completedAt]_vars

\* A merge later than the first terminal one has kept completedAt.
C4_Witness ==
  /\ Stored("j1")
  /\ IsSome(Record("j1").completedAt)
  /\ The(Record("j1").completedAt) < Record("j1").updatedAt

\* C5: over the calls of mergeJobRecord on one jobId, the stored updatedAt never
\* decreases, and every call sets it to the time of the call.
C5_UpdatedAtIsCallTime ==
  [][\A j \in MergeJobIds :
       IsSome(store'[j]) =>
         /\ IsSome(store[j]) => Record(j).updatedAt <= The(store'[j]).updatedAt
         /\ now' = now => The(store'[j]).updatedAt = now]_vars

\* A record created earlier has been merged again after the clock advanced.
C5_Witness ==
  /\ Stored("j1")
  /\ Record("j1").status = "running"
  /\ Record("j1").startedAt < Record("j1").updatedAt
  /\ Record("j1").updatedAt = now

\* The Status answer is being delivered to the poller in this step.
StatusAnswered == P.pc = "status" /\ P'.pc # "status"

\* The answer the Status Endpoint has ready says the job is not over yet.
StillPending == IsOk(S.statusCode) /\ IsSome(S.record) /\ ~IsTerminal(The(S.record).status)

\* C6: the first Status answer that is OK and carries completed or failed makes the
\* poller return exactly that record, and a poller that has returned sends no
\* further Status request and no further request to the Launcher.
C6_TerminalAnswerIsReturned ==
  [][/\ (/\ StatusAnswered
          /\ IsOk(S.statusCode)
          /\ IsSome(S.record)
          /\ IsTerminal(The(S.record).status))
         => (P'.pc = "returned" /\ P'.returned = S.record /\ P'.polls = P.polls)
     /\ P.pc = "returned" => (P' = P /\ S' = S /\ L' = L)]_vars

\* The poller has returned a failed record on a poll later than its first one.
C6_Witness ==
  /\ P.pc = "returned"
  /\ P.polls >= 2
  /\ P.starts = 1
  /\ IsSome(P.returned)
  /\ The(P.returned).status = "failed"

\* C7: a Status answer 404 has the effect of an OK answer with pending or running:
\* no error is raised, the poller waits the current interval, advances it by the
\* backoff rule and polls again unless the timeout has elapsed.
C7_NotFoundIsStillPending ==
  [][/\ (StatusAnswered /\ (S.statusCode = 404 \/ StillPending))
         => P' = [P EXCEPT !.pc = "delay", !.lastCode = S.statusCode]
     /\ (P.pc = "delay" /\ P'.pc # "delay")
         => /\ P'.pc = "loop"
            /\ P'.error = ""
            /\ clientNow' = clientNow + P.attemptInterval
            /\ P'.attemptInterval = NextInterval(P.attemptInterval)
     /\ (P.pc = "loop" /\ P'.pc # "loop" /\ ~P.aborted /\ ~TimedOut(P, clientNow))
         => (P'.pc = "status" /\ P'.polls = P.polls + 1)]_vars

\* After an answer 404 the poller has waited, backed off and is polling again.
C7_Witness ==
  /\ P.pc = "status"
  /\ P.lastCode = 404
  /\ Len(P.delays) >= 2
  /\ P.error = ""

PollerDone == P.pc \in {"returned", "threw"}

\* C8: when every HTTP call returns, runValidationJob ends; no Status request leaves
\* once the loop has run for more than timeoutMs; and when no answer was terminal or
\* an error and the caller did not abort, the run ends with the timeout error.
C8_PollerTimesOut ==
  /\ <>PollerDone
  /\ [](P.pc = "status" => DateNow(clientNow) - P.startedAt <= P.timeoutMs)
  /\ []((P.pc = "threw" /\ ~P.aborted /\ P.lastCode \in {200, 404})
           => P.error = TimeoutError)

\* The poller has timed out after a series of polls that found no terminal record.
C8_Witness ==
  /\ P.pc = "threw"
  /\ P.error = TimeoutError
  /\ ~P.aborted
  /\ P.polls >= 3
  /\ P.lastCode = 404

\* C9: as soon as the time since the request to the Launcher was sent exceeds
\* timeoutMs, the next pass of the loop throws the timeout error.
C9_TimeoutFromLauncherCall ==
  [][(/\ P.pc = "loop" /\ P'.pc # "loop" /\ ~P.aborted
      /\ DateNow(clientNow) - P.sentAt > P.timeoutMs)
     => (P'.pc = "threw" /\ P'.error = TimeoutError)]_vars

\* C9, measured from the Launcher's answer: the loop's clock starts when the answer
\* of the Launcher has been received, and a pass of the loop that finds the signal
\* not aborted throws the timeout error exactly when the time since then exceeds
\* timeoutMs.
C9_TimeoutFromLauncherAnswer ==
  [][/\ (P.pc = "start" /\ P'.pc = "loop") => P'.startedAt = DateNow(clientNow')
     /\ (P.pc = "loop" /\ P'.pc # "loop" /\ ~P.aborted)
         => ((P'.pc = "threw" /\ P'.error = TimeoutError)
               <=> DateNow(clientNow) - P.startedAt > P.timeoutMs)]_vars

\* The poller has timed out, and the Launcher's answer had taken time to arrive.
C9_Witness ==
  /\ P.pc = "threw"
  /\ P.error = TimeoutError
  /\ P.sentAt < P.startedAt

\* The k-th delay of the default schedule, in milliseconds.
DefaultDelay(k) ==
  IF k = 1 THEN 1500 ELSE IF k = 2 THEN 2100 ELSE IF k = 3 THEN 2940
  ELSE IF k = 4 THEN 4116 ELSE 5000

\* C10: with the default initial interval the delays between polls are 1500, 2100,
\* 2940, 4116, 5000, 5000, ... milliseconds, and none exceeds 5000.
C10_DefaultBackoffSchedule ==
  P.pollIntervalMs = DEFAULT_POLL_INTERVAL_MS =>
    \A k \in 1..Len(P.delays) :
      /\ P.delays[k] = Micro(DefaultDelay(k))
      /\ P.delays[k] <= Micro(MAX_POLL_INTERVAL_MS)

\* The default schedule has gone past its first capped delay.
C10_Witness ==
  /\ P.pollIntervalMs = DEFAULT_POLL_INTERVAL_MS
  /\ Len(P.delays) >= 6

\* The Launcher's answer is being delivered to the poller in this step.
StartAnswered == P.pc = "start" /\ P'.pc # "start"

SubmissionErrors == {"Failed to start validation job", "fetch failed"}

\* C11: every answer of the Launcher with a status other than 200 and 202 makes
\* runValidationJob throw a submission error with no Status poll sent, and polls are
\* sent only after an answer 200 or 202.
C11_OnlyOkOrAcceptedStartsPolling ==
  [][/\ (StartAnswered /\ L[1].statusCode \notin {200, 202})
         => (P'.pc = "threw" /\ P'.error \in SubmissionErrors /\ P'.polls = 0)
     /\ P'.polls > 0 => L[1].statusCode \in {200, 202}]_vars

\* C11, for the statuses the poller accepts: an answer of the Launcher with a status
\* outside 200..299 makes runValidationJob throw a submission error with no Status
\* poll sent; an answer with any status in 200..299 starts the polling.
C11_OnlySuccessStatusStartsPolling ==
  [][/\ (StartAnswered /\ ~(L[1].statusCode \in 200..299))
         => (P'.pc = "threw" /\ P'.error \in SubmissionErrors /\ P'.polls = 0)
     /\ (StartAnswered /\ L[1].statusCode \in 200..299)
         => (P'.pc = "loop" /\ P'.error = "")
     /\ P'.polls > 0 => L[1].statusCode \in 200..299]_vars

\* The Launcher has answered 502 and the poller has thrown without polling.
C11_Witness ==
  /\ P.pc = "threw"
  /\ L[1].statusCode = 502
  /\ P.error = "Failed to start validation job"
  /\ P.polls = 0
  /\ S = StatusIdle

\* C12: a pass through the top of the loop that finds the signal aborted throws the
\* AbortError without a Status request; the signal has no effect while a request
\* is in flight or a delay is running: the AbortError arises at the loop's top only.
C12_AbortBetweenIterations ==
  [][/\ (P.pc = "loop" /\ P.aborted /\ P'.pc # "loop")
         => (P'.pc = "threw" /\ P'.error = "AbortError" /\ P'.polls = P.polls /\ S' = S)
     /\ (P'.error = "AbortError" /\ P.error # "AbortError")
         => (P.pc = "loop" /\ P.aborted)
     /\ (P.aborted /\ P.pc = "delay" /\ P'.pc # "delay")
         => (P'.pc = "loop" /\ clientNow' = clientNow + P.attemptInterval)
     /\ (P.aborted /\ P.pc = "status" /\ P'.pc # "status")
         => P' = [PollerOnStatusAnswer([P EXCEPT !.aborted = FALSE],
                                       S.statusCode, S.record) EXCEPT !.aborted = TRUE]]_vars

\* The caller aborted while a Status request was in flight; the answer was handled,
\* the delay ran to its end, and the next pass of the loop threw the AbortError.
C12_Witness ==
  /\ P.pc = "threw"
  /\ P.error = "AbortError"
  /\ P.polls >= 2
  /\ Len(P.delays) = P.polls

\* C13: a Status answer that is neither 404 nor OK makes runValidationJob throw a
\* polling error at once: no record is returned, and no Status request follows.
C13_UnexpectedStatusIsFatal ==
  [][/\ (/\ StatusAnswered
          /\ S.statusCode \notin {0, 404}
          /\ ~(S.statusCode \in 200..299))
         => /\ P'.pc = "threw"
            /\ P'.error = "Unexpected status response"
            /\ P'.returned = None
            /\ P'.polls = P.polls
     /\ P.pc = "threw" => (P' = P /\ S' = S)]_vars

\* The poller has thrown the polling error on an answer 500 after an earlier poll.
C13_Witness ==
  /\ P.pc = "threw"
  /\ P.error = "Unexpected status response"
  /\ P.lastCode = 500
  /\ P.polls >= 2
  /\ P.returned = None

\* Invocation i of the Executor writes, in this step, the record of the upstream
\* response it received.
OutcomeWritten(i) ==
  /\ E[i].pc = "termWrite"
  /\ E'[i].pc = "done"
  /\ ~E[i].inCatch
  /\ IsSome(E[i].answer)
  /\ The(E[i].answer).kind = "response"

Written(i) == The(store'[E[i].jobId])

JsonTexts == {MessageBody, RowsBody}

\* C14: for an upstream response with a status outside 200..299 the record written is
\* failed, its result.status is the upstream status, and its error.message is the
\* message field of the parsed body when there is one, else the message naming
\* the status.
C14_UpstreamErrorIsRecorded ==
  [][\A i \in Launches :
       (OutcomeWritten(i) /\ ~(The(E[i].answer).status \in 200..299)) =>
         LET a == The(E[i].answer)
             r == Written(i)
         IN /\ r.status = "failed"
            /\ IsSome(r.result)
            /\ The(r.result).status = a.status
            /\ IsSome(r.error)
            /\ The(r.error).message =
                 IF a.text = MessageBody THEN "invalid ingredient id"
                 ELSE IF a.status = 404 THEN "Upstream request failed with status 404"
                 ELSE "Upstream request failed with status 500"]_vars

\* The upstream answer 500 with the body {"message":"invalid ingredient id"} has been
\* recorded.
C14_Witness ==
  \E j \in JobIds :
    /\ Stored(j)
    /\ Record(j).status = "failed"
    /\ IsSome(Record(j).result)
    /\ The(Record(j).result).status = 500
    /\ The(Record(j).error).message = "invalid ingredient id"

\* C15: for an upstream response whose body is not valid JSON the record written is
\* failed with an error.message, whatever the status; a record is completed only
\* for a response 2xx whose body, when it has one, has been parsed.
C15_MalformedBodyIsFailed ==
  [][\A i \in Launches :
       OutcomeWritten(i) =>
         LET a == The(E[i].answer)
             r == Written(i)
         IN /\ (a.text # "" /\ a.text \notin JsonTexts)
                 => (r.status = "failed" /\ IsSome(r.error))
            /\ r.status = "completed"
                 => (a.status \in 200..299 /\ a.text \in JsonTexts \cup {""})]_vars

\* C16: for an upstream response 2xx the record written is completed, its result
\* carries the upstream status, the parsed body or none, the raw body and its
\* weight in bytes (both absent for an empty body), metrics.durationMs is the time
\* the call took, and the record carries no error.
C16_SuccessIsRecorded ==
  [][\A i \in Launches :
       (OutcomeWritten(i) /\ The(E[i].answer).status \in 200..299) =>
         LET a == The(E[i].answer)
             r == Written(i)
         IN /\ r.status = "completed"
            /\ IsSome(r.result)
            /\ The(r.result).status = a.status
            /\ IsSome(The(r.result).body) = (a.text \in JsonTexts)
            /\ The(r.result).rawBody = IF a.text = "" THEN None ELSE Some(a.text)
            /\ IsSome(The(r.result).weightBytes) = (a.text # "")
            /\ IsSome(r.metrics)
            /\ IsSome(The(r.metrics).durationMs)
            /\ The(The(r.metrics).durationMs) \in 0..(now - E[i].startedAt)
            /\ r.error = None]_vars

\* An upstream answer 200 with a JSON body, received one tick after the call was
\* sent, has been recorded.
C16_Witness ==
  \E j \in JobIds :
    /\ Stored(j)
    /\ Record(j).status = "completed"
    /\ The(Record(j).result).status = 200
    /\ The(Record(j).result).rawBody = Some(RowsBody)
    /\ The(Record(j).result).weightBytes = Some(11)
    /\ The(Record(j).metrics).durationMs = Some(1)
    /\ Record(j).error = None

\* C17: in every stored record the error field is present only if the status is
\* failed.
C17_ErrorOnlyWhenFailed ==
  \A j \in JobIds :
    (Stored(j) /\ IsSome(Record(j).error)) => Record(j).status = "failed"

\* A failed record with its error has been submitted again under the same jobId and
\* is now running, without the error.
C17_Witness ==
  /\ L[1].statusCode = 502
  /\ L[2].pc = "done"
  /\ E[2].pc \in {"upstream", "termRead", "termWrite"}
  /\ Stored(E[2].jobId)
  /\ Record(E[2].jobId).status = "running"
  /\ Record(E[2].jobId).error = None
  /\ IsSome(Record(E[2].jobId).completedAt)

\* Invocation i of the Launcher is inside a call of mergeJobRecord.
LauncherMerging(i) == L[i].pc \in {"read", "write", "failRead", "failWrite"}

\* Invocation i of the Executor is inside a call of mergeJobRecord.
ExecutorMerging(i) == E[i].pc \in {"write", "termRead", "termWrite"}

\* No jobId has a Launcher and an Executor inside mergeJobRecord at the same time.
SingleWriter ==
  \A i, k \in Launches :
    (LauncherMerging(i) /\ ExecutorMerging(k)) => L[i].jobId # E[k].jobId

\* This step is a write of the Launcher that creates the record of j.
LauncherCreates(j) ==
  \E i \in Launches : L[i].jobId = j /\ L[i].pc = "write" /\ L'[i].pc = "trigger"

\* This step is a write of the Executor to the record of j.
ExecutorWrites(j) ==
  \E i \in Launches :
    E[i].jobId = j /\ E[i].pc \in {"write", "termWrite"} /\ E'[i].pc # E[i].pc

\* This step is the Launcher's failed mark on the record of j, its trigger not having
\* been accepted and its Executor never having run.
LauncherMarksFailed(j) ==
  \E i \in Launches :
    /\ L[i].jobId = j /\ L[i].pc = "failWrite" /\ L'[i].pc = "done"
    /\ ~(L[i].trigger \in 200..299)
    /\ E[i].pc = "idle"

\* C18: for a jobId only the Launcher writes the initial record and only the Executor
\* writes any later record, so the two are never both inside a read-modify-write
\* of the same jobId.
C18_OnlyExecutorWritesLater ==
  /\ []SingleWriter
  /\ [][\A j \in JobIds :
          (IsSome(store'[j]) /\ store'[j] # store[j]) =>
            IF Stored(j) THEN ExecutorWrites(j) ELSE LauncherCreates(j)]_vars

\* C18, with the Launcher's failed mark: the initial record is written by the
\* Launcher; a later record is written by the Executor, or by the Launcher as the
\* failed mark after a trigger that was not accepted, its Executor not running; the
\* two are never both inside a read-modify-write of the same jobId.
C18_SingleWriterWithFailedMark ==
  /\ []SingleWriter
  /\ [][\A j \in JobIds :
          (IsSome(store'[j]) /\ store'[j] # store[j]) =>
            IF Stored(j) THEN ExecutorWrites(j) \/ LauncherMarksFailed(j)
                         ELSE LauncherCreates(j)]_vars

\* The Launcher has written the failed mark over its own pending record, and the
\* Executor has not run.
C18_Witness ==
  /\ L[1].pc = "done"
  /\ L[1].statusCode = 502
  /\ E[1].pc = "idle"
  /\ TerminalStored(L[1].jobId)
  /\ Record(L[1].jobId).status = "failed"

\* C19: the pending record is stored before the trigger call is sent; the Launcher
\* answers 202 with the jobId when the trigger has been accepted and only then, and
\* at that answer the record is still pending: the answer does not wait for the job.
C19_PendingThenTriggerThenAccepted ==
  [][\A i \in Launches :
       /\ (L[i].pc # "trigger" /\ L'[i].pc = "trigger")
            => /\ IsSome(store'[L'[i].jobId])
               /\ The(store'[L'[i].jobId]).status = "pending"
       /\ (L[i].statusCode # 202 /\ L'[i].statusCode = 202)
            => /\ L[i].pc = "trigger"
               /\ L'[i].pc = "done"
               /\ L'[i].trigger \in 200..299
               /\ L'[i].answeredJobId = Some(L[i].jobId)
               /\ E'[i].pc = "start"
               /\ IsSome(store'[L[i].jobId])
               /\ The(store'[L[i].jobId]).status = "pending"
       /\ (L[i].pc = "trigger" /\ L'[i].pc # "trigger" /\ E'[i].pc = "start")
            => L'[i].statusCode = 202]_vars

\* The Launcher has answered 202 with the jobId while the record is pending and the
\* Executor has not begun.
C19_Witness ==
  /\ L[1].pc = "done"
  /\ L[1].statusCode = 202
  /\ L[1].answeredJobId = Some(L[1].jobId)
  /\ E[1].pc = "start"
  /\ Stored(L[1].jobId)
  /\ Record(L[1].jobId).status = "pending"

\* The requests the Launcher refuses before any record exists.
RefusedKinds == {"badJson", "noEndpoint"}

\* The Launcher has answered 400 with one of the two messages of the body checks.
Refused(i) ==
  /\ L[i].pc = "done"
  /\ L[i].statusCode = 400
  /\ L[i].message \in {"Invalid JSON payload", "Request endpoint is required"}

\* C20: a request whose body is not JSON, or whose request.endpoint is missing, is
\* answered in the same step with an error status and a message and without a jobId;
\* no record is written and no Executor is started, then or afterwards.
C20_RefusedRequestLeavesNoTrace ==
  /\ [][\A kind \in RefusedKinds, jobId \in JobIds, endpoint \in Endpoints,
           metadata \in Metadatas :
           LauncherInvoke(kind, jobId, endpoint, metadata)
             => /\ Refused(1)'
                /\ L'[1].answeredJobId = None
                /\ L'[1].jobId = ""
                /\ store' = store
                /\ E' = E]_vars
  /\ [](Refused(1) => /\ \A j \in JobIds : ~Stored(j)
                      /\ \A i \in Launches : E[i].pc = "idle"
                      /\ L[1].answeredJobId = None)

\* A refused request has been answered, and time has passed since.
C20_Witness ==
  /\ Refused(1)
  /\ L[1].message = "Request endpoint is required"
  /\ now > 0
  /\ S.pc = "done"
  /\ S.statusCode = 404

\* The Status Endpoint's readJobRecord settles without a throw in this step.
StatusReads == S.pc = "read" /\ S'.pc \in {"done", "delete"}

\* C21: a Status call whose read finds no record under the jobId answers 404; one
\* that finds a record answers 200 with exactly that record; and no step of a call
\* of the plain variant changes the store.
C21_StatusAnswersFromTheStore ==
  [][/\ (StatusReads /\ ~Stored(S.jobId))
         => /\ S'.pc = "done"
            /\ S'.statusCode = 404
            /\ S'.record = None
     /\ (StatusReads /\ Stored(S.jobId))
         => /\ S'.record = store[S.jobId]
            /\ S'.statusCode = IF S'.pc = "done" THEN 200 ELSE 0
     /\ (S.pc = "delete" /\ S'.pc = "done")
         => /\ S'.statusCode = 200
            /\ S'.record = S.record
     /\ (S' # S /\ ~S'.cleanup) => store' = store]_vars

\* The plain variant has answered 200 with a terminal record, which is still stored.
C21_Witness ==
  /\ S.pc = "done"
  /\ ~S.cleanup
  /\ S.statusCode = 200
  /\ TerminalStored(S.jobId)
  /\ S.record = store[S.jobId]

\* The record the Status Endpoint has just read is terminal.
ReadTerminal == Stored(S.jobId) /\ IsTerminal(Record(S.jobId).status)

\* C22: the cleanup variant goes on to deleteJobRecord exactly when the record it
\* read is terminal; the delete removes that jobId's record or, when it fails, leaves
\* the store as it was, and the answer is 200 with the record read in both cases; no
\* other step of the Status Endpoint changes the store.
C22_CleanupDeletesTerminalOnly ==
  [][/\ (StatusReads /\ S.cleanup /\ ReadTerminal)
         => /\ S'.pc = "delete"
            /\ S'.record = store[S.jobId]
            /\ store' = store
     /\ (StatusReads /\ ~ReadTerminal)
         => /\ S'.pc = "done"
            /\ store' = store
     /\ (S.pc = "delete" /\ S' # S)
         => /\ S'.pc = "done"
            /\ S'.statusCode = 200
            /\ S'.record = S.record
            /\ IsTerminal(The(S.record).status)
            /\ store' \in {store, [store EXCEPT ![S.jobId] = None]}
     /\ (S' # S /\ store' # store) => S.pc = "delete"]_vars

\* The cleanup variant has answered 200 with a terminal record and the record is gone.
C22_Witness ==
  /\ S.pc = "done"
  /\ S.cleanup
  /\ S.statusCode = 200
  /\ IsSome(S.record)
  /\ IsTerminal(The(S.record).status)
  /\ ~Stored(S.jobId)

\* C23: once the upstream call has settled, with a response of any status and body
\* or with an exception, the Executor records the outcome and answers 200; the answer
\* is the same for every outcome, which is to be read in the stored record alone.
C23_ExecutorAlwaysAnswers200 ==
  [][\A i \in Launches :
       /\ (E[i].pc = "upstream" /\ E'[i] # E[i]) => E'[i].pc = "termRead"
       /\ (E[i].pc = "termRead" /\ E'[i] # E[i]) => E'[i].pc = "termWrite"
       /\ (E[i].pc = "termWrite" /\ E'[i] # E[i])
            => /\ E'[i] = [E[i] EXCEPT !.pc = "done", !.statusCode = 200,
                                       !.merged = None, !.patch = None, !.answer = None]
               /\ store'[E[i].jobId] = E[i].merged
               /\ IsTerminal(Written(i).status)
               /\ Written(i).status = "failed"
                    <=> (E[i].inCatch \/ ~(The(E[i].answer).status \in 200..299))]_vars

\* The upstream call has thrown, the failed record is stored and the answer is 200.
C23_Witness ==
  /\ E[1].pc = "done"
  /\ E[1].statusCode = 200
  /\ E[1].inCatch
  /\ Stored(E[1].jobId)
  /\ Record(E[1].jobId).status = "failed"
  /\ Record(E[1].jobId).result = None

\* Every patch a call of mergeJobRecord is given in SpecMerge.
AllMergePatches == UNION {MergePatches(j, t) : j \in MergeJobIds, t \in 0..MaxTime}

\* patch[key] when the patch carries the key, else the value given.
PatchOr(patch, key, value) == IF key \in DOMAIN patch THEN patch[key] ELSE value

\* C24: mergeJobRecord on a jobId with no stored record stores the patch applied to a
\* skeleton that is pending, started and updated now, with the request endpoint
\* "unknown" and the method POST; a patch without a status leaves the record pending.
C24_MergeCreatesFromPendingSkeleton ==
  [][\A j \in MergeJobIds, patch \in AllMergePatches :
         (~Stored(j) /\ MergeCall(j, patch)) =>
           LET r == The(store'[j])
           IN /\ Stored(j)'
              /\ r.jobId = j
              /\ r.status = PatchOr(patch, "status", "pending")
              /\ r.startedAt = PatchOr(patch, "startedAt", now)
              /\ r.updatedAt = now
              /\ r.request.method = "POST"
              /\ r.request.endpoint =
                   IF "request" \in DOMAIN patch THEN patch.request.endpoint ELSE "unknown"
              /\ r.result = PatchOr(patch, "result", None)
              /\ r.error = PatchOr(patch, "error", None)
              /\ ("status" \notin DOMAIN patch)
                   => (r.status = "pending" /\ r.completedAt = None)]_vars

\* A record created, after time has passed, by a patch that carries metrics only.
C24_Witness ==
  \E j \in MergeJobIds :
    /\ Stored(j)
    /\ Record(j).status = "pending"
    /\ Record(j).request.endpoint = "unknown"
    /\ Record(j).startedAt > 0
    /\ Record(j).startedAt = Record(j).updatedAt
    /\ Record(j).metrics = Some([durationMs |-> Some(5)])

RequestFields == {"endpoint", "method", "metadata"}

\* The patch carries a request that has the field.
MentionsRequest(patch, field) ==
  "request" \in DOMAIN patch /\ field \in DOMAIN patch.request

\* The patch carries a metrics object that has durationMs.
MentionsDuration(patch) ==
  /\ "metrics" \in DOMAIN patch
  /\ IsSome(patch.metrics)
  /\ "durationMs" \in DOMAIN The(patch.metrics)

\* C25: a merge into a stored record keeps every field of request that the patch's
\* request does not carry, and keeps metrics.durationMs when the patch's metrics
\* does not carry it; request and metrics themselves stay present.
C25_MergeKeepsSiblingFields ==
  [][\A j \in MergeJobIds, patch \in AllMergePatches :
         (/\ Stored(j)
          /\ Stored(j)'
          /\ The(store'[j]).status = PatchOr(patch, "status", Record(j).status)
          /\ MergeCall(j, patch)) =>
           LET e == Record(j)
               r == The(store'[j])
           IN /\ \A field \in RequestFields :
                   ~MentionsRequest(patch, field) => r.request[field] = e.request[field]
              /\ IsSome(r.metrics)
              /\ (IsSome(e.metrics) /\ ~MentionsDuration(patch))
                   => The(r.metrics).durationMs = The(e.metrics).durationMs]_vars

\* The Launcher's patch, then a patch of request.endpoint alone, then a patch of
\* metrics.durationMs alone: the metadata, the endpoint and the duration are there.
C25_Witness ==
  \E j \in MergeJobIds :
    /\ Stored(j)
    /\ Record(j).request.endpoint = "/x"
    /\ Record(j).request.metadata = Some("scenario")
    /\ Record(j).metrics = Some([durationMs |-> Some(5)])

\* The record but for its updatedAt.
WithoutUpdatedAt(record) == [record EXCEPT !.updatedAt = 0]

\* C26: when a call of mergeJobRecord has stored a record, a second call with the same
\* patch, then or later, computes from it a record equal to it in every field but
\* updatedAt.
C26_MergeIsIdempotent ==
  [][\A j \in MergeJobIds, patch \in AllMergePatches :
       (/\ Stored(j)'
        /\ The(store'[j]).status = PatchOr(patch, "status", The(store'[j]).status)
        /\ MergeCall(j, patch)) =>
          \A t \in now..MaxTime :
            WithoutUpdatedAt(MergeRecord(Existing(store'[j], j, t), patch, t))
              = WithoutUpdatedAt(The(store'[j]))]_vars

\* A terminal record stored again, later, by the patch that made it terminal.
C26_Witness ==
  \E j \in MergeJobIds, patch \in AllMergePatches :
    /\ Stored(j)
    /\ "status" \in DOMAIN patch
    /\ IsTerminal(patch.status)
    /\ Record(j).completedAt = Some(0)
    /\ Record(j).startedAt = 0
    /\ Record(j).updatedAt = 1
    /\ MergeRecord(Record(j), patch, 1) = Record(j)

\* The tiers in the order resolveStore tries them.
Tiers == <<"blob", "file", "memory">>

\* The tier would initialise now.
Initialises(tier) ==
  IF tier = "blob" THEN J.blobsEnv
  ELSE IF tier = "file" THEN ~CreateFileStoreThrows
  ELSE TRUE

FirstTier == Tiers[CHOOSE i \in 1..3 : Initialises(Tiers[i])
                                       /\ \A k \in 1..(i - 1) : ~Initialises(Tiers[k])]

\* C27: the first store call of a process resolves the first of blob, file, memory
\* that initialises at that moment; from then on jobStore never changes, whatever
\* becomes of the environment, and a call touches the contents of that backend only.
C27_FirstTierIsCached ==
  [][/\ (J.jobStore = "none" /\ J'.ret # J.ret) => J'.jobStore = FirstTier
     /\ (J.jobStore = "none" /\ J'.ret = J.ret) => J'.jobStore = "none"
     /\ J.jobStore # "none" => J'.jobStore = J.jobStore
     /\ J'.jobStore # "blob" => J'.blobs = J.blobs
     /\ J'.jobStore # "file" => J'.file = J.file
     /\ J'.jobStore # "memory" => J'.memoryStore = J.memoryStore]_vars

\* The file backend was resolved without the Blobs environment; the environment is
\* configured now, and a record has been written to the file all the same.
C27_Witness ==
  /\ J.jobStore = "file"
  /\ J.blobsEnv
  /\ J.ret.op = "write"
  /\ ~J.ret.threw
  /\ IsSome(J.file)
  /\ HasOwn(The(J.file), "j1")
  /\ \A k \in StoreKeys : J.blobs[k] = None

\* C28: no call of readJobRecord, writeJobRecord (and so mergeJobRecord),
\* deleteJobRecord or listJobRecords ends in an exception because a tier of the store
\* cannot be opened.
C28_OpenFailureNeverEscapes == ~J.ret.threw

\* A call of the store on the file backend, with a file system that works.
FileCall(op) ==
  /\ J'.jobStore = "file"
  /\ J.fs = "ok"
  /\ J'.ret # J.ret
  /\ J'.ret.op = op

\* C29: a process whose Blobs environment is missing resolves the file backend; there
\* a read that follows a write of the same key returns the record written, a read that
\* follows a delete of the same key returns null, and a read of a key the file does
\* not hold, or with no file at all, returns null; none of them throws.
C29_FileBackendRoundTrips ==
  [][/\ (J.jobStore = "none" /\ ~J.blobsEnv /\ J'.ret # J.ret) => J'.jobStore = "file"
     /\ FileCall("read") => ~J'.ret.threw
     /\ (FileCall("read") /\ J.ret.op = "write" /\ ~J.ret.threw /\ J'.ret.key = J.ret.key)
          => J'.ret.value = J.ret.arg
     /\ (FileCall("read") /\ J.ret.op = "delete" /\ ~J.ret.threw /\ J'.ret.key = J.ret.key)
          => J'.ret.value = None
     /\ (FileCall("read") /\ J'.ret.key \notin J.live) => J'.ret.value = None]_vars

\* C30: the keys listJobRecords gets from listKeys are exactly the keys written and
\* not deleted since, each once.
C30_ListKeysAreTheLiveKeys ==
  (J.ret.op = "list" /\ ~J.ret.threw) =>
    /\ {J.ret.keys[i] : i \in 1..Len(J.ret.keys)} = J.live
    /\ Len(J.ret.keys) = Cardinality(J.live)

\* The strings a record holds.
RecordStrings(record) ==
  {record.request.endpoint, record.request.method}
    \cup record.request.metadata
    \cup (IF IsSome(record.error) THEN {The(record.error).message} ELSE {})
    \cup (IF IsSome(record.result)
          THEN The(record.result).rawBody \cup The(record.result).statusText ELSE {})

\* The record without its jobId and its times.
WithoutIdAndTimes(record) ==
  [record EXCEPT !.jobId = "", !.startedAt = 0, !.updatedAt = 0,
                 !.completedAt = IF IsSome(@) THEN Some(0) ELSE None,
                 !.metrics = IF IsSome(@) THEN Some([durationMs |-> None]) ELSE None]

\* The handlers of submission i have run to their end.
Finished(i) == L[i].pc \in {"done", "threw"} /\ E[i].pc \in {"idle", "done", "threw"}

\* C31: no stored record holds a credential; and when two submissions that differ in
\* jobId and credential alone, answered alike by the trigger and by the upstream API,
\* have run to their end, their records are equal but for jobId and times.
C31_RecordsIgnoreTheCredential ==
  /\ \A j \in JobIds : Stored(j) => RecordStrings(Record(j)) \cap Credentials = {}
  /\ (Finished(1) /\ Finished(2)) =>
       /\ Stored(L[1].jobId) <=> Stored(L[2].jobId)
       /\ Stored(L[1].jobId) =>
            WithoutIdAndTimes(Record(L[1].jobId)) = WithoutIdAndTimes(Record(L[2].jobId))

\* Two submissions with different credentials have both been recorded completed.
C31_Witness ==
  /\ Finished(1)
  /\ Finished(2)
  /\ L[1].credential = Some("Bearer key-A")
  /\ L[2].credential = Some("Bearer key-B")
  /\ E[1].credential = L[1].credential
  /\ E[2].credential = L[2].credential
  /\ Stored(L[1].jobId)
  /\ Stored(L[2].jobId)
  /\ Record(L[1].jobId).status = "completed"
  /\ Record(L[2].jobId).status = "completed"

\* The top-level fields a patch can name.
PatchFields == {"status", "startedAt", "request", "result", "error", "metrics"}

\* The value of a field, an absent metrics object reading as an empty one.
FieldOf(record, field) ==
  IF field = "metrics"
    THEN (IF IsSome(record.metrics) THEN The(record.metrics) ELSE EmptyMetrics)
    ELSE record[field]

\* This step is the write of caller c's mergeJobRecord.
MergeWrites(c) == M.merge[c].pc = "write" /\ M'.merge[c].pc = "done"

\* Caller d has written since it read the record caller c has read.
WroteBeside(c, d) ==
  /\ d # c
  /\ M.merge[d].pc = "done"
  /\ M.merge[d].jobId = M.merge[c].jobId
  /\ M.merge[d].existing = M.merge[c].existing

\* C32: two calls of mergeJobRecord on one jobId that have both read before either
\* writes are not serialised: the write of each stores the record it computed from
\* its own read, so after both the record is the one written last, and a field that
\* the other call alone has changed reads as it did before the two calls.
C32_LastWriteWins ==
  [][\A c \in Callers :
       MergeWrites(c) =>
         LET call == M.merge[c]
             after == The(store'[call.jobId])
         IN /\ store'[call.jobId] = call.merged
            /\ \A d \in Callers :
                 WroteBeside(c, d) =>
                   /\ \A field \in (DOMAIN The(M.merge[d].patch)) \ (DOMAIN The(call.patch)) :
                        FieldOf(after, field) = FieldOf(The(call.existing), field)
                   /\ "status" \notin DOMAIN The(call.patch) =>
                        after.completedAt = The(call.existing).completedAt]_vars

\* Both callers read the pending record; one recorded the outcome, then the other wrote
\* its duration: the record is pending again, with no result and no completedAt.
C32_Witness ==
  /\ M.merge[1].pc = "done"
  /\ M.merge[2].pc = "done"
  /\ M.merge[1].existing = M.merge[2].existing
  /\ The(M.merge[1].existing).status = "pending"
  /\ The(M.merge[1].merged).status = "completed"
  /\ The(M.merge[2].patch) = [metrics |-> Some([durationMs |-> Some(5)])]
  /\ store[RaceJobId] = M.merge[2].merged
  /\ Record(RaceJobId).status = "pending"
  /\ Record(RaceJobId).result = None
  /\ Record(RaceJobId).completedAt = None
  /\ The(M.merge[1].merged).result # None

\* This step is the write of caller c's setJSON, and it succeeds.
SetWrites(c) == M.set[c].pc = "writeAll" /\ M'.set[c].pc = "done"

\* C33: with the file backend a setJSON writes the whole file from its own earlier
\* read, so two of them on two jobIds can race: when the other caller has written
\* a key that was not in the file this caller read, the file this caller writes does
\* not hold that key, though the other caller's writeJobRecord has returned.
C33_FileWritesRace ==
  [][\A c \in Callers :
       SetWrites(c) =>
         /\ J'.file = Some(Stringify(M.set[c].data))
         /\ \A d \in Callers \ {c} :
              (M.set[d].pc = "done" /\ M.set[d].key # M.set[c].key
                 /\ ~HasOwn(M.set[c].data, M.set[d].key))
                => /\ M.set[d].key \in J'.live
                   /\ ~HasOwn(ReadAll(J'), M.set[d].key)]_vars

\* Both callers have returned from writeJobRecord, each for its own jobId, and the
\* file holds the record of the second alone.
C33_Witness ==
  /\ J.jobStore = "file"
  /\ M.set[1].pc = "done"
  /\ M.set[2].pc = "done"
  /\ M.set[1].key = "j1"
  /\ M.set[2].key = "j2"
  /\ J.live = {"j1", "j2"}
  /\ HasOwn(ReadAll(J), "j2")
  /\ ~HasOwn(ReadAll(J), "j1")

\* The positions of an Executor whose upstream call has been issued.
PastRunningWrite == {"upstream", "termRead", "termWrite"}

\* C34: within one Executor invocation the upstream call is issued by the step that
\* writes the record with status running, and by no other; the outcome's merge starts
\* after the upstream call only, so every write of completed or failed by the
\* Executor comes after its running write for the same jobId.
C34_RunningBeforeOutcome ==
  [][\A i \in Launches :
       /\ (E[i].pc \notin PastRunningWrite /\ E'[i].pc \in PastRunningWrite)
            => /\ E[i].pc = "write"
               /\ E'[i].pc = "upstream"
               /\ store'[E[i].jobId] = E[i].merged
               /\ The(store'[E[i].jobId]).status = "running"
       /\ (E[i].pc = "write" /\ E'[i].pc # "write" /\ store'[E[i].jobId] # store[E[i].jobId])
            => The(store'[E[i].jobId]).status = "running"
       /\ (E[i].pc \notin {"idle", "termWrite"} /\ E'[i] # E[i]
              /\ store'[E[i].jobId] # store[E[i].jobId])
            => E[i].pc = "write"
       /\ (E[i].pc = "termWrite" /\ E'[i].pc = "done")
            => /\ IsTerminal(The(store'[E[i].jobId]).status)
               /\ E[i].jobId = E'[i].jobId]_vars

\* The Executor has recorded a failed outcome after its running write, the clock
\* having advanced in between.
C34_Witness ==
  /\ E[1].pc = "done"
  /\ E[1].statusCode = 200
  /\ Stored(E[1].jobId)
  /\ Record(E[1].jobId).status = "failed"
  /\ Record(E[1].jobId).startedAt < Record(E[1].jobId).updatedAt
  /\ IsSome(Record(E[1].jobId).metrics)

\* This step sends a Status request of runValidationJob.
PollsStatus == P.pc = "loop" /\ P'.pc = "status"

\* The jobId polled is the one of the Launcher's response when it carries one, else
\* the one generated for the request.
PolledJobIdIsResolved ==
  PollsStatus =>
    S'.jobId = IF IsSome(L[1].answeredJobId) THEN The(L[1].answeredJobId) ELSE L[1].jobId

\* C35: runValidationJob polls the jobId of the Launcher's response when there is
\* one and the jobId it generated otherwise; either way that is the key under which
\* the Launcher wrote the pending record, and the Launcher wrote under no other key.
C35_PolledJobIdIsTheLaunchersKey ==
  [][/\ PolledJobIdIsResolved
     /\ PollsStatus => S'.jobId = L[1].jobId
     /\ (L[1].pc = "write" /\ L'[1].pc = "trigger")
          => /\ store'[L[1].jobId] = L[1].merged
             /\ The(store'[L[1].jobId]).status = "pending"
             /\ \A j \in JobIds \ {L[1].jobId} : store'[j] = store[j]
     /\ L[1].pc # "idle" => L'[1].jobId = L[1].jobId]_vars

\* The browser is polling the jobId the Launcher answered with, and the record stored
\* under it is the one of its request.
C35_Witness ==
  /\ P.pc = "status"
  /\ S.pc = "read"
  /\ L[1].answeredJobId = Some(S.jobId)
  /\ S.jobId = P.jobId
  /\ Stored(S.jobId)
  /\ Record(S.jobId).request.endpoint = L[1].endpoint
  /\ store[CHOOSE j \in JobIds : j # S.jobId] = None

\* C36: whatever pollIntervalMs the caller passes, every delay between two Status
\* polls is at least 500 ms and at most 5000 ms, and no delay is shorter than the
\* one before it.
C36_DelaysWithinBoundsAndNonDecreasing ==
  \A k \in 1..Len(P.delays) :
    /\ Micro(MIN_POLL_INTERVAL_MS) <= P.delays[k]
    /\ P.delays[k] <= Micro(MAX_POLL_INTERVAL_MS)
    /\ k > 1 => P.delays[k - 1] <= P.delays[k]

\* C37: in every stored record, whatever Launcher and Executor invocations have run,
\* a Launcher call that reuses a jobId included, completedAt is present exactly when
\* the status is completed or failed.
C37_CompletedAtIffTerminal ==
  \A j \in JobIds :
    Stored(j) => (IsSome(Record(j).completedAt) <=> IsTerminal(Record(j).status))

\* The cleanup variant has answered with the terminal record of j and has deleted it.
CleanupDeleted(j) ==
  /\ S.jobId = j
  /\ S.pc = "done"
  /\ S.cleanup
  /\ S.statusCode = 200
  /\ IsSome(S.record)
  /\ IsTerminal(The(S.record).status)
  /\ ~Stored(j)

\* C38: once the cleanup variant of the Status Endpoint has deleted the terminal
\* record of a jobId, no write of the Launcher or the Executor of that submission puts
\* a record under that jobId again, and a Status read that finds no record answers 404.
C38_DeletedRecordStaysDeleted ==
  /\ \A j \in JobIds : [](CleanupDeleted(j) => []~Stored(j))
  /\ [][(StatusReads /\ ~Stored(S.jobId)) => (S'.pc = "done" /\ S'.statusCode = 404)]_vars

\* The terminal record of the submission was deleted by the cleanup variant, and a
\* later Status call for the same jobId has been answered 404.
C38_Witness ==
  /\ L[1].pc = "done"
  /\ E[1].pc = "done"
  /\ E[1].statusCode = 200
  /\ S.jobId = L[1].jobId
  /\ S.pc = "done"
  /\ S.statusCode = 404
  /\ ~Stored(L[1].jobId)

\* C39: a signal that is already aborted when runValidationJob is called does not
\* stop the submission: the request is sent to the Launcher and its answer is handled
\* as without the signal; the AbortError is thrown at the top of the loop only, that
\* is after the Launcher has stored the pending record, triggered the Executor and
\* answered 202, and when the signal was set by then, before any Status request.
C39_AbortedCallStillSubmits ==
  [][/\ (P.pc = "idle" /\ P.aborted /\ P'.pc = "start")
         => /\ L'[1].pc = "read"
            /\ L'[1].jobId = P'.jobId
            /\ P'.polls = 0
     /\ (P.pc = "idle" /\ P.aborted /\ P'.pc = "threw")
         => /\ P'.error = "endpointPath is required"
            /\ L' = L
     /\ (P.pc = "start" /\ P.aborted /\ P'.pc # "start")
         => /\ P'.error # "AbortError"
            /\ StartAccepted(L[1].statusCode) <=> P'.pc = "loop"
     /\ (P'.error = "AbortError" /\ P.error # "AbortError")
         => /\ P.pc = "loop"
            /\ L[1].pc = "done"
            /\ L[1].statusCode = 202
            /\ E[1].pc # "idle"
            /\ P.polls = 0 => Stored(L[1].jobId)
     /\ (P.pc = "loop" /\ P.aborted /\ P.polls = 0 /\ P'.pc # "loop")
         => /\ P'.pc = "threw"
            /\ P'.error = "AbortError"
            /\ P'.polls = 0
            /\ S' = S]_vars

\* The call has thrown the AbortError with no Status request sent; the record of its
\* job is stored and the Executor has been started.
C39_Witness ==
  /\ P.pc = "threw"
  /\ P.error = "AbortError"
  /\ P.aborted
  /\ P.polls = 0
  /\ P.starts = 1
  /\ S = StatusIdle
  /\ L[1].statusCode = 202
  /\ E[1].pc # "idle"
  /\ Stored(P.jobId)

====
